---- MODULE Spec2Model ----
(***************************************************************************)
(* A model of the SOCKS5 handshake library `libra`: the wire codec         *)
(* (src/libra/src/codec.rs), the server handshake (server.rs) and the      *)
(* client handshake (client.rs), each run over a byte stream whose peer    *)
(* delivers its bytes in arbitrary chunks.                                 *)
(*                                                                         *)
(* A byte is an integer 0..255, a buffer a sequence of bytes.  Indices     *)
(* into buffers are the source's zero-based ones (see At).                 *)
(***************************************************************************)
EXTENDS Integers, Sequences, FiniteSets, TLC

VARIABLES
    \* ---- the codec on its own (tests::test_codec) ----
    item,       \* the frame under test
    buf,        \* the BytesMut it is encoded into and decoded from
    item1,      \* what decode returned
    step,       \* "idle" | "init" | "encoded" | "decoded"
    cut,        \* how many bytes of the encoding the buffer was cut to, or -1
    \* ---- a handshake over a stream ----
    mode,       \* "codec" | "server" | "client": which side the library plays
    script,     \* what the peer sends: [hs |-> bytes, payload |-> bytes, ...]
    wire,       \* the peer's bytes not yet read from the stream
    ioLocal,    \* local address of the incoming stream
    cfg,        \* the Builder: [authorization, destination]
    pc,         \* where the handshake is
    rbuf,       \* Framed's read buffer
    recvd,      \* frames recv returned, in order
    sent,       \* frames written (and flushed) to the peer, in order, as bytes
    dialed,     \* destinations handed to the dial callback, in order
    upstream,   \* the dial callback's answer
    result,     \* the handshake's return value
    returned,   \* the bytes the returned stream yields
    \* ---- the other end, when it is the library's client ----
    client,     \* the client handshake at the far end of the stream, or Idle
    \* ---- leo: the HTTP head parser ----
    head        \* parse_request / parse_response: the Vec the head is read into

codecVars == <<item, buf, item1, step, cut>>
hsVars == <<mode, script, wire, ioLocal, cfg, pc, rbuf, recvd, sent, dialed,
            upstream, result, returned>>
otherVars == <<client, head>>
vars == <<item, buf, item1, step, cut, mode, script, wire, ioLocal, cfg, pc, rbuf,
          recvd, sent, dialed, upstream, result, returned, client, head>>

----------------------------------------------------------------------------
(* codec.rs: constants *)

NO_AUTHENTICATION_REQUIRED == 0
GSSAPI == 1
USERNAME_AND_PASSWORD == 2
NO_ACCEPTABLE_METHODS == 255

CONNECT == 1
BIND == 2
UDP_ASSOCIATE == 3

DST_IPV4 == 1
DST_DOMAIN == 3
DST_IPV6 == 4

SUCCEEDED == 0
HOST_UNREACHABLE == 4
COMMAND_NOT_SUPPORTED == 7
ADDRESS_TYPE_NOT_SUPPORTED == 8

SOCKS_VERSION == 5
AUTH_VERSION == 1

AUTH_SUCCEED == 0
AUTH_FAILED == 1

\* rep_str: the canonical reason of a reply code
rep_str(rep) ==
    CASE rep = 0 -> "succeeded"
      [] rep = 1 -> "general socks server failure"
      [] rep = 2 -> "connection not allowed by ruleset"
      [] rep = 3 -> "network unreachable"
      [] rep = 4 -> "host unreachable"
      [] rep = 5 -> "connection refused"
      [] rep = 6 -> "ttl expired"
      [] rep = 7 -> "command not supported"
      [] rep = 8 -> "address type not supported"
      [] OTHER -> "unknown"

----------------------------------------------------------------------------
(* codec.rs: enum Item *)

Methods(ms) == [tag |-> "Methods", methods |-> ms]
Selection(m) == [tag |-> "Selection", method |-> m]
UsernamePassword(u, p) == [tag |-> "UsernamePassword", user |-> u, pass |-> p]
Status(s) == [tag |-> "Status", status |-> s]
Command(cmd, atyp, addr, port) ==
    [tag |-> "Command", code |-> cmd, atyp |-> atyp, addr |-> addr, port |-> port]
Reply(rep, atyp, addr, port) ==
    [tag |-> "Reply", code |-> rep, atyp |-> atyp, addr |-> addr, port |-> port]

\* fn matches(state, item): the item is the variant the stage names
matches(state, it) == it.tag = state

----------------------------------------------------------------------------
(* bytes::BytesMut as the codec uses it *)

\* src[i], zero-based as in the source
At(src, i) == src[i + 1]

\* the n bytes from zero-based offset i
Slice(src, i, n) == SubSeq(src, i + 1, i + n)

\* what is left after the first n bytes
Rest(src, n) == SubSeq(src, n + 1, Len(src))

\* put_u16 / get_u16: big-endian
U16Bytes(port) == <<port \div 256, port % 256>>
U16At(src, i) == At(src, i) * 256 + At(src, i + 1)

\* `len as u8`
AsU8(n) == n % 256

\* a continuation byte of UTF-8
IsCont(c) == c >= 128 /\ c <= 191

\* how many continuation bytes follow the leading byte c (-1: c cannot lead)
Utf8Follow(c) ==
    IF c < 128 THEN 0
    ELSE IF c >= 194 /\ c <= 223 THEN 1
    ELSE IF c >= 224 /\ c <= 239 THEN 2
    ELSE IF c >= 240 /\ c <= 244 THEN 3
    ELSE -1

\* String::from_utf8(bytes).is_ok(): the first byte leads, and every byte
\* that is not a continuation byte leads a well-formed sequence of exactly
\* its length (no overlong forms, no surrogates, nothing above U+10FFFF)
IsUtf8(b) ==
    /\ (Len(b) > 0 => ~IsCont(b[1]))
    /\ \A i \in 1..Len(b) :
          IsCont(b[i]) \/
          LET c == b[i]
              k == Utf8Follow(c)
          IN  /\ k >= 0
              /\ i + k <= Len(b)
              /\ \A j \in (i + 1)..(i + k) : IsCont(b[j])
              /\ (i + k < Len(b) => ~IsCont(b[i + k + 1]))
              /\ (c = 224 => b[i + 1] >= 160)
              /\ (c = 237 => b[i + 1] <= 159)
              /\ (c = 240 => b[i + 1] >= 144)
              /\ (c = 244 => b[i + 1] <= 143)

----------------------------------------------------------------------------
(* codec.rs: Decoder::decode.  The outcomes: Ok(None), Ok(Some(item)) with *)
(* the bytes left in src, Err(e), and a panic (a failed assert!, an index  *)
(* out of bounds, a split_to/get past the end).                            *)

DNone(src) == [kind |-> "None", rest |-> src]
DSome(it, rest) == [kind |-> "Some", item |-> it, rest |-> rest]
DErr(e) == [kind |-> "Err", err |-> e]
DPanic(why) == [kind |-> "Panic", why |-> why]

\* DecoderState::Methods (lines 218-227)
DecodeMethods(src) ==
    IF Len(src) < 2 \/ At(src, 1) > Len(src) - 2 THEN DNone(src)
    ELSE IF At(src, 0) # SOCKS_VERSION THEN DPanic("Invalid SOCKS version")
    ELSE LET len == At(src, 1)
         IN  DSome(Methods(Slice(src, 2, len)), Rest(src, 2 + len))

\* DecoderState::Selection (lines 228-235)
DecodeSelection(src) ==
    IF Len(src) < 2 THEN DNone(src)
    ELSE IF At(src, 0) # SOCKS_VERSION THEN DPanic("Invalid SOCKS version")
    ELSE DSome(Selection(At(src, 1)), Rest(src, 2))

\* the index of the password length octet the decoder reads (line 240)
PlenIndex(src) == 2 + At(src, 1)

\* the frame length the decoder requires before it consumes (line 240)
UserPassNeeded(src) == At(src, PlenIndex(src)) + At(src, 1) + 2

\* DecoderState::UsernamePassword (lines 236-254)
DecodeUsernamePassword(src) ==
    IF Len(src) < 2 \/ At(src, 1) > Len(src) - 2 THEN DNone(src)
    ELSE IF PlenIndex(src) >= Len(src) THEN DPanic("index out of bounds")
    ELSE IF UserPassNeeded(src) > Len(src) THEN DNone(src)
    ELSE IF At(src, 0) # AUTH_VERSION THEN DPanic("Invalid AUTH version")
    ELSE LET ulen == At(src, 1)
             username == Slice(src, 2, ulen)
             plen == At(src, 2 + ulen)
             password == Slice(src, 3 + ulen, plen)
         IN  IF 3 + ulen + plen > Len(src) THEN DPanic("split_to out of bounds")
             ELSE IF ~IsUtf8(username) \/ ~IsUtf8(password)
                  THEN DPanic("Invalid UTF-8")
             ELSE DSome(UsernamePassword(username, password),
                        Rest(src, 3 + ulen + plen))

\* DecoderState::Status (lines 255-262)
DecodeStatus(src) ==
    IF Len(src) < 2 THEN DNone(src)
    ELSE IF At(src, 0) # AUTH_VERSION THEN DPanic("Invalid AUTH version")
    ELSE DSome(Status(At(src, 1)), Rest(src, 2))

\* the octet the DST_DOMAIN arm compares with the bytes at hand (lines 293, 339)
DomainGuardIndex == 5

\* the DST_IPV4 / DST_IPV6 arms: a fixed-size address (lines 268-291, 314-337)
DecodeFixed(src, tag, atyp, n) ==
    IF Len(src) < 6 + n THEN DNone(src)
    ELSE IF At(src, 0) # SOCKS_VERSION THEN DPanic("Invalid SOCKS version")
    ELSE DSome([tag |-> tag, code |-> At(src, 1), atyp |-> atyp,
                addr |-> Slice(src, 4, n), port |-> U16At(src, 4 + n)],
               Rest(src, 6 + n))

\* the DST_DOMAIN arm (lines 292-304, 338-350)
DecodeDomain(src, tag) ==
    IF Len(src) < 7 \/ At(src, DomainGuardIndex) > Len(src) - 7 THEN DNone(src)
    ELSE IF At(src, 0) # SOCKS_VERSION THEN DPanic("Invalid SOCKS version")
    ELSE LET len == At(src, 4)
         IN  IF 5 + len > Len(src) THEN DPanic("split_to out of bounds")
             ELSE IF 5 + len + 2 > Len(src) THEN DPanic("get_u16 out of bounds")
             ELSE DSome([tag |-> tag, code |-> At(src, 1), atyp |-> DST_DOMAIN,
                         addr |-> Slice(src, 5, len), port |-> U16At(src, 5 + len)],
                        Rest(src, 7 + len))

\* DecoderState::Command and DecoderState::Reply (lines 263-354)
DecodeRequest(src, tag) ==
    IF Len(src) < 4 THEN DNone(src)
    ELSE CASE At(src, 3) = DST_IPV4 -> DecodeFixed(src, tag, DST_IPV4, 4)
           [] At(src, 3) = DST_IPV6 -> DecodeFixed(src, tag, DST_IPV6, 16)
           [] At(src, 3) = DST_DOMAIN -> DecodeDomain(src, tag)
           [] OTHER -> DErr("AddressTypeNotSupported")

\* Codec::decode
decode(state, src) ==
    CASE state = "Methods" -> DecodeMethods(src)
      [] state = "Selection" -> DecodeSelection(src)
      [] state = "UsernamePassword" -> DecodeUsernamePassword(src)
      [] state = "Status" -> DecodeStatus(src)
      [] state = "Command" -> DecodeRequest(src, "Command")
      [] state = "Reply" -> DecodeRequest(src, "Reply")

----------------------------------------------------------------------------
(* codec.rs: Encoder::encode.  Ok(bytes) or Err(e); debug_assert! is a     *)
(* panic in a debug build and nothing in a release build.                  *)

EOk(bytes) == [kind |-> "Ok", bytes |-> bytes]
EErr(e) == [kind |-> "Err", err |-> e]

\* the address part of a Command or Reply (lines 393-413, 421-441)
EncodeAddr(atyp, addr, port) ==
    CASE atyp = DST_IPV4 -> EOk(addr \o U16Bytes(port))
      [] atyp = DST_IPV6 -> EOk(addr \o U16Bytes(port))
      [] atyp = DST_DOMAIN -> EOk(<<AsU8(Len(addr))>> \o addr \o U16Bytes(port))
      [] OTHER -> EErr("AddressTypeNotSupported")

\* Codec::encode (lines 362-445)
encode(it) ==
    CASE it.tag = "Methods" ->
            EOk(<<SOCKS_VERSION, AsU8(Len(it.methods))>> \o it.methods)
      [] it.tag = "Selection" -> EOk(<<SOCKS_VERSION, it.method>>)
      [] it.tag = "UsernamePassword" ->
            EOk(<<AUTH_VERSION, AsU8(Len(it.user))>> \o it.user
                \o <<AsU8(Len(it.pass))>> \o it.pass)
      [] it.tag = "Status" -> EOk(<<AUTH_VERSION, it.status>>)
      [] it.tag \in {"Command", "Reply"} ->
            LET a == EncodeAddr(it.atyp, it.addr, it.port)
            IN  IF a.kind = "Ok"
                THEN EOk(<<SOCKS_VERSION, it.code, 0, it.atyp>> \o a.bytes)
                ELSE a

----------------------------------------------------------------------------
(* Bounds and the values the inputs are drawn from *)

MaxMethods == 2
MaxStr == 2
MaxDomain == 3

\* the sequences over S of length lo..hi
SeqsOf(S, lo, hi) == UNION {[1..k -> S] : k \in lo..hi}

MethodBytes == {NO_AUTHENTICATION_REQUIRED, USERNAME_AND_PASSWORD}
CodeBytes == {0, 1, 255}
StrBytes == {1, 97}
DomainBytes == {0, 3, 101}
Ports == {0, 4660}
Ipv4Addrs == {<<0, 0, 0, 0>>, <<127, 0, 0, 1>>}
Ipv6Addrs == {[i \in 1..16 |-> 0], [i \in 1..16 |-> i]}

Addresses ==
    ({DST_IPV4} \X Ipv4Addrs) \cup ({DST_IPV6} \X Ipv6Addrs)
    \cup ({DST_DOMAIN} \X SeqsOf(DomainBytes, 1, MaxDomain))

\* frames of the six variants
Frames ==
    {Methods(ms) : ms \in SeqsOf(MethodBytes, 0, MaxMethods)}
    \cup {Selection(m) : m \in CodeBytes}
    \cup {UsernamePassword(up[1], up[2]) :
            up \in SeqsOf(StrBytes, 0, MaxStr) \X SeqsOf(StrBytes, 0, MaxStr)}
    \cup {Status(s) : s \in CodeBytes}
    \cup {Command(x[1], x[2][1], x[2][2], x[3]) : x \in CodeBytes \X Addresses \X Ports}
    \cup {Reply(x[1], x[2][1], x[2][2], x[3]) : x \in CodeBytes \X Addresses \X Ports}

----------------------------------------------------------------------------
(* The codec on its own, as tests::test_codec drives it: encode a frame    *)
(* into an empty buffer, optionally keep only a strict prefix of it (the   *)
(* bytes that have arrived so far), decode at the frame's stage.           *)

Idle == [kind |-> "idle"]

HsIdle ==
    /\ script = Idle /\ wire = <<>> /\ ioLocal = Idle /\ cfg = Idle
    /\ pc = "idle" /\ rbuf = <<>> /\ recvd = <<>> /\ sent = <<>>
    /\ dialed = <<>> /\ upstream = Idle /\ result = Idle /\ returned = <<>>
    /\ client = Idle /\ head = <<>>

CodecInit ==
    /\ mode = "codec"
    /\ item \in Frames
    /\ buf = <<>> /\ item1 = Idle /\ step = "init" /\ cut = -1
    /\ HsIdle

\* codec.encode(item.clone(), &mut buf).unwrap()
CodecEncode ==
    /\ step = "init"
    /\ encode(item).kind = "Ok"
    /\ buf' = buf \o encode(item).bytes
    /\ step' = "encoded"
    /\ UNCHANGED <<item, item1, cut>>
    /\ UNCHANGED hsVars
    /\ UNCHANGED otherVars

\* only the first k bytes of the frame have arrived
CodecCut ==
    /\ step = "encoded" /\ cut = -1
    /\ \E k \in 0..(Len(buf) - 1) :
          /\ buf' = SubSeq(buf, 1, k)
          /\ cut' = k
    /\ UNCHANGED <<item, item1, step>>
    /\ UNCHANGED hsVars
    /\ UNCHANGED otherVars

\* codec.decode(&mut buf) with the codec at the frame's stage
CodecDecode ==
    /\ step = "encoded"
    /\ LET r == decode(item.tag, buf)
       IN  /\ item1' = r
           /\ buf' = IF r.kind \in {"None", "Some"} THEN r.rest ELSE buf
    /\ step' = "decoded"
    /\ UNCHANGED <<item, cut>>
    /\ UNCHANGED hsVars
    /\ UNCHANGED otherVars

CodecNext == CodecEncode \/ CodecCut \/ CodecDecode

SpecCodec == CodecInit /\ [][CodecNext]_vars

----------------------------------------------------------------------------
(* A handshake over a stream.  The peer's bytes are all on their way       *)
(* (wire); each read of Framed moves some non-empty prefix of them into    *)
(* its read buffer, which is how any chunking of the peer's bytes shows.   *)

MaxPayload == 2
MaxSegment == 128

\* the opaque bytes a peer sends after its handshake bytes
Payloads == {[i \in 1..k |-> 200 + i] : k \in 0..MaxPayload}

\* std::net::SocketAddr
SocketAddrV4(ip, port) == [fam |-> "V4", ip |-> ip, port |-> port]
SocketAddrV6(ip, port) == [fam |-> "V6", ip |-> ip, port |-> port]
SocketAddrs ==
    {SocketAddrV4(<<127, 0, 0, 1>>, 4660), SocketAddrV6([i \in 1..16 |-> i], 80)}

\* lib.rs: Destination::new
Destination(aty, host, port) == [aty |-> aty, host |-> host, port |-> port]

\* Option
None == [kind |-> "None"]
Some(v) == [kind |-> "Some", v |-> v]

\* Result of a handshake
Ok == [kind |-> "Ok"]
OkWith(stream) == [kind |-> "Ok", upstream |-> stream]
Err(e) == [kind |-> "Err", err |-> e]
ErrRep(rep) == [kind |-> "Err", err |-> "Rep", rep |-> rep, reason |-> rep_str(rep)]
Panic == [kind |-> "Panic"]

\* the credentials a Builder may hold, and the ones a peer may send
User == <<97>>
Pass == <<98, 1>>
Authorizations == {None, Some(<<User, Pass>>)}
PeerCredentials == {<<User, Pass>>, <<User, <<98>>>>, <<<<1>>, Pass>>}

\* a frame as written by frame.send(item): the item and its bytes
Frame(it) == [item |-> it, bytes |-> encode(it).bytes]

\* the bytes of a request or reply as any peer may put them on the wire
RawRequest(code, atyp, addrpart) == <<SOCKS_VERSION, code, 0, atyp>> \o addrpart

\* the stages in which the handshake is inside recv / send_wait's frame.next()
RecvStages == {"Methods", "Selection", "UsernamePassword", "Status", "Command", "Reply"}

\* what the codec makes of the read buffer at the stage recv set
Decoded == decode(pc, rbuf)

\* how many bytes one read of the stream may bring: any number of those on
\* their way, so that a read may end at any byte of them; a long run arrives
\* in segments
ReadSizes(w) == IF Len(w) <= MaxSegment THEN 1..Len(w) ELSE {MaxSegment}

\* Framed::poll_next: nothing decodable yet, bytes arrive from the stream
Read ==
    /\ pc \in RecvStages
    /\ Decoded.kind = "None"
    /\ \E n \in ReadSizes(wire) :
          /\ rbuf' = rbuf \o SubSeq(wire, 1, n)
          /\ wire' = Rest(wire, n)
    /\ UNCHANGED <<mode, script, ioLocal, cfg, pc, recvd, sent, dialed, upstream,
                   result, returned>>
    /\ UNCHANGED codecVars
    /\ UNCHANGED otherVars

\* the far end has dropped the stream: a scripted peer once its bytes are
\* out, a client handshake once it has returned an error or panicked
PeerClosed ==
    IF client = Idle THEN TRUE
    ELSE client.pc = "done" /\ client.result.kind # "Ok"

\* recv / send_wait: the stream ended before a frame was complete
\* (frame.next() gives None, or Some(Err(io)) for bytes left over)
Eof ==
    /\ pc \in RecvStages
    /\ Decoded.kind = "None"
    /\ wire = <<>>
    /\ PeerClosed
    /\ result' = Err("Io")
    /\ pc' = "done"
    /\ UNCHANGED <<mode, script, wire, ioLocal, cfg, rbuf, recvd, sent, dialed,
                   upstream, returned>>
    /\ UNCHANGED codecVars
    /\ UNCHANGED otherVars

\* recv / send_wait: the decoder failed (r?) or panicked
RecvFail ==
    /\ pc \in RecvStages
    /\ Decoded.kind \in {"Err", "Panic"}
    /\ result' = IF Decoded.kind = "Err" THEN Err(Decoded.err) ELSE Panic
    /\ pc' = "done"
    /\ UNCHANGED <<mode, script, wire, ioLocal, cfg, rbuf, recvd, sent, dialed,
                   upstream, returned>>
    /\ UNCHANGED codecVars
    /\ UNCHANGED otherVars

----------------------------------------------------------------------------
(* The encoder on its own, given any Command or Reply a caller may build,  *)
(* in a build with debug assertions or in one without.                     *)

\* debug_assert!(addr.len() == 4), debug_assert!(addr.len() == 16)
\* (lines 395, 401, 423, 429)
AddressLengthAgrees(it) ==
    CASE it.atyp = DST_IPV4 -> Len(it.addr) = 4
      [] it.atyp = DST_IPV6 -> Len(it.addr) = 16
      [] OTHER -> TRUE

\* what encode has put into dst when it stops in an address arm (lines
\* 388-392, 416-420)
RequestHead(it) == <<SOCKS_VERSION, it.code, 0, it.atyp>>

\* Codec::encode in a build with debug assertions (debug) or without: what
\* it returns, or that it panics, and the bytes in dst
EncodeIn(debug, it) ==
    IF it.tag \in {"Command", "Reply"}
    THEN IF debug /\ ~AddressLengthAgrees(it)
         THEN [result |-> Panic, bytes |-> RequestHead(it)]
         ELSE IF encode(it).kind = "Err"
         THEN [result |-> Err(encode(it).err), bytes |-> RequestHead(it)]
         ELSE [result |-> Ok, bytes |-> encode(it).bytes]
    ELSE [result |-> Ok, bytes |-> encode(it).bytes]

\* addresses whose length is not their family's, and one of no family
MismatchedAddresses ==
    {<<DST_IPV4, <<127, 0, 1>>>>, <<DST_IPV4, <<127, 0, 0, 0, 1>>>>,
     <<DST_IPV4, <<>>>>, <<DST_IPV6, <<127, 0, 0, 1>>>>,
     <<DST_IPV6, [i \in 1..17 |-> i]>>}
UnknownAddresses == {<<5, <<127, 0, 0, 1>>>>}

\* frames with a field of 255 bytes, the most a length octet can tell, and
\* with a field longer than that
LongFrames ==
    {Methods([i \in 1..n |-> NO_AUTHENTICATION_REQUIRED]) : n \in {255, 256}}
    \cup {UsernamePassword([i \in 1..n |-> 97], <<98>>) : n \in {255, 256}}
    \cup {UsernamePassword(<<97>>, [i \in 1..n |-> 98]) : n \in {255, 300}}
    \cup {Command(CONNECT, DST_DOMAIN, [i \in 1..n |-> 101], 80) : n \in {255, 256}}
    \cup {Reply(SUCCEEDED, DST_DOMAIN, [i \in 1..n |-> 101], 80) : n \in {255, 256}}

EncoderFrames ==
    Frames
    \cup LongFrames
    \cup {Command(x[1], x[2][1], x[2][2], x[3]) :
            x \in CodeBytes \X (MismatchedAddresses \cup UnknownAddresses) \X Ports}
    \cup {Reply(x[1], x[2][1], x[2][2], x[3]) :
            x \in CodeBytes \X (MismatchedAddresses \cup UnknownAddresses) \X Ports}

EncoderInit ==
    /\ mode = "encoder"
    /\ item \in EncoderFrames
    /\ buf = <<>> /\ item1 = Idle /\ step = "init" /\ cut = -1
    /\ HsIdle

\* codec.encode(item, &mut buf)
EncoderEncode ==
    /\ mode = "encoder" /\ step = "init"
    /\ \E debug \in BOOLEAN :
          /\ buf' = buf \o EncodeIn(debug, item).bytes
          /\ result' = EncodeIn(debug, item).result
    /\ step' = "encoded"
    /\ UNCHANGED <<item, item1, cut>>
    /\ UNCHANGED <<mode, script, wire, ioLocal, cfg, pc, rbuf, recvd, sent, dialed,
                   upstream, returned>>
    /\ UNCHANGED otherVars

EncoderNext == EncoderEncode

SpecEncoder == EncoderInit /\ [][EncoderNext]_vars

----------------------------------------------------------------------------
(* The decoder on a frame that is followed by more of the stream: the      *)
(* frame's bytes and the bytes behind it (wire) are in the buffer when it  *)
(* decodes.                                                                *)

\* the bytes behind the frame: none, payload, the start of a next frame
Trailing ==
    Payloads \cup {<<0>>, <<SOCKS_VERSION, 1, 0>>, <<255, 255>>}

BoundaryInit ==
    /\ mode = "boundary"
    /\ item \in Frames
    /\ wire \in Trailing
    /\ buf = <<>> /\ item1 = Idle /\ step = "init" /\ cut = -1
    /\ script = Idle /\ ioLocal = Idle /\ cfg = Idle
    /\ pc = "idle" /\ rbuf = <<>> /\ recvd = <<>> /\ sent = <<>>
    /\ dialed = <<>> /\ upstream = Idle /\ result = Idle /\ returned = <<>>
    /\ client = Idle /\ head = <<>>

\* the frame as encoded and what follows it have been read into the buffer
BoundaryFill ==
    /\ mode = "boundary" /\ step = "init"
    /\ buf' = encode(item).bytes \o wire
    /\ step' = "encoded"
    /\ UNCHANGED <<item, item1, cut>>
    /\ UNCHANGED hsVars
    /\ UNCHANGED otherVars

BoundaryNext == BoundaryFill \/ CodecDecode

SpecBoundary == BoundaryInit /\ [][BoundaryNext]_vars

----------------------------------------------------------------------------
(* server.rs: Builder::handshake *)

\* SelectMethod, were the server to fall back to no authentication when
\* USER_PASS is not offered
SelectMethodFallback(authorization, methods) ==
    IF authorization.kind = "Some"
       /\ \E i \in 1..Len(methods) : methods[i] = USERNAME_AND_PASSWORD
    THEN USERNAME_AND_PASSWORD
    ELSE NO_AUTHENTICATION_REQUIRED

\* the method the server selects (lines 64-85)
SelectMethod(authorization, methods) ==
    IF authorization.kind = "Some"
    THEN IF \E i \in 1..Len(methods) : methods[i] = USERNAME_AND_PASSWORD
         THEN USERNAME_AND_PASSWORD
         ELSE NO_ACCEPTABLE_METHODS
    ELSE NO_AUTHENTICATION_REQUIRED

\* CredentialsMatch, were only the user name compared
CredentialsMatchUserOnly(authorization, u, p) == authorization.v[1] = u

\* user == &u && pass == &p (line 70)
CredentialsMatch(authorization, u, p) ==
    authorization.v[1] = u /\ authorization.v[2] = p

\* AuthStatus, were a mismatch answered like a match
AuthStatusAlwaysSucceed(authorization, u, p) == AUTH_SUCCEED

\* the status the server answers the credentials with (lines 70-75)
AuthStatus(authorization, u, p) ==
    IF CredentialsMatch(authorization, u, p) THEN AUTH_SUCCEED ELSE AUTH_FAILED

\* AfterStatus, were the handshake to go on after AUTH_FAILED
AfterStatusGoesOn(st) == "Command"

\* where the handshake goes once the status is written (lines 70-75): on
\* to the request, or out with Unauthorized
AfterStatus(st) == IF st = AUTH_SUCCEED THEN "Command" ELSE "done"

\* CommandSupported, were BIND let through
CommandSupportedWithBind(cmd) == cmd \in {CONNECT, BIND}

\* cmd != CONNECT (line 93)
CommandSupported(cmd) == cmd = CONNECT

\* DST_IPV4 | DST_IPV6 | DST_DOMAIN (line 109)
AddressTypeSupported(atyp) == atyp \in {DST_IPV4, DST_IPV6, DST_DOMAIN}

\* the replies of the failure branches (lines 95-100, 114-119, 137)
FailureReply(rep) == Reply(rep, DST_IPV4, <<0, 0, 0, 0>>, 0)

\* the reply to a command the server does not carry out (lines 93-106)
CommandReply == FailureReply(COMMAND_NOT_SUPPORTED)

\* DialFailureReply, were the dial error answered with the success code
DialFailureReplySucceeded == FailureReply(SUCCEEDED)

\* the reply after the dial callback failed (lines 135-140)
DialFailureReply == FailureReply(HOST_UNREACHABLE)

\* SuccessReply, were the bound address left unspecified
SuccessReplyUnspecified(remote_addr) == Reply(SUCCEEDED, DST_IPV4, <<0, 0, 0, 0>>, 0)

\* the bound address of the success reply (lines 127-132)
SuccessReply(remote_addr) ==
    IF remote_addr.fam = "V4"
    THEN Reply(SUCCEEDED, DST_IPV4, remote_addr.ip, remote_addr.port)
    ELSE Reply(SUCCEEDED, DST_IPV6, remote_addr.ip, remote_addr.port)

ServerMethodLists == {<<0>>, <<2>>, <<0, 2>>}

\* a peer's frame with another version octet in front
WithVersion(v, bytes) == <<v>> \o Tail(bytes)

\* the greetings a peer may send: the method lists, and one of SOCKS 4
ServerGreetings ==
    {encode(Methods(ms)).bytes : ms \in ServerMethodLists}
    \cup {WithVersion(4, encode(Methods(<<0, 2>>)).bytes)}

\* the longest credentials the frame has room for: 255 octets each
LongCredentials ==
    UsernamePassword([i \in 1..255 |-> 97], [i \in 1..255 |-> 98])

\* the credentials a peer may send, one of them under another version, one
\* of them the longest
ServerAuthFrames ==
    {<<>>} \cup {encode(UsernamePassword(c[1], c[2])).bytes : c \in PeerCredentials}
    \cup {WithVersion(2, encode(UsernamePassword(User, Pass)).bytes),
          encode(LongCredentials).bytes}
ServerRequests ==
    {RawRequest(x[1], x[2][1], x[2][2]) :
        x \in {CONNECT, BIND} \X
              {<<DST_IPV4, <<127, 0, 0, 1, 18, 52>>>>,
               <<DST_DOMAIN, <<2, 2, 101, 0, 80>>>>,
               <<DST_DOMAIN, <<2, 1, 101, 0, 80>>>>,
               <<DST_DOMAIN, <<1, 101, 0, 80>>>>,
               <<DST_DOMAIN, <<0, 0, 80>>>>,
               <<DST_IPV6, [i \in 1..18 |-> i]>>,
               <<5, <<127, 0, 0, 1, 18, 52>>>>}}
    \cup {WithVersion(4, RawRequest(CONNECT, DST_IPV4, <<127, 0, 0, 1, 18, 52>>)),
          WithVersion(4, RawRequest(CONNECT, DST_DOMAIN, <<1, 101, 0, 80>>))}

\* what the dial callback may answer: an upstream stream, whose remote_addr()
\* is an address or an io error, or an error
DialAnswers ==
    {[kind |-> "Ok", remote_addr |-> [kind |-> "Ok", v |-> a]] : a \in SocketAddrs}
    \cup {[kind |-> "Ok", remote_addr |-> [kind |-> "Err"]], [kind |-> "Err"]}

ServerInit ==
    /\ mode = "server"
    /\ cfg \in [authorization : Authorizations, destination : {None}]
    /\ script \in [methods : ServerGreetings,
                   auth : ServerAuthFrames,
                   request : ServerRequests,
                   payload : Payloads]
    /\ wire = script.methods \o script.auth \o script.request \o script.payload
    /\ ioLocal \in SocketAddrs
    /\ pc = "Methods"
    /\ rbuf = <<>> /\ recvd = <<>> /\ sent = <<>> /\ dialed = <<>>
    /\ upstream = Idle /\ result = Idle /\ returned = <<>>
    /\ item = Idle /\ buf = <<>> /\ item1 = Idle /\ step = "idle" /\ cut = -1
    /\ client = Idle /\ head = <<>>

\* lines 62-86: the Methods frame is in, the server selects
ServerMethods ==
    /\ mode = "server" /\ pc = "Methods"
    /\ Decoded.kind = "Some"
    /\ rbuf' = Decoded.rest
    /\ recvd' = Append(recvd, Decoded.item)
    /\ LET m == SelectMethod(cfg.authorization, Decoded.item.methods)
       IN  /\ sent' = Append(sent, Frame(Selection(m)))
           /\ IF m = NO_ACCEPTABLE_METHODS
              THEN result' = Err("UnknownMethod") /\ pc' = "done"
              ELSE /\ result' = result
                   /\ pc' = IF m = USERNAME_AND_PASSWORD
                            THEN "UsernamePassword" ELSE "Command"
    /\ UNCHANGED <<mode, script, wire, ioLocal, cfg, dialed, upstream, returned>>
    /\ UNCHANGED codecVars
    /\ UNCHANGED otherVars

\* lines 67-76: the UsernamePassword frame is in, the server answers it
ServerUsernamePassword ==
    /\ mode = "server" /\ pc = "UsernamePassword"
    /\ Decoded.kind = "Some"
    /\ rbuf' = Decoded.rest
    /\ recvd' = Append(recvd, Decoded.item)
    /\ LET st == AuthStatus(cfg.authorization, Decoded.item.user, Decoded.item.pass)
       IN  /\ sent' = Append(sent, Frame(Status(st)))
           /\ pc' = AfterStatus(st)
           /\ result' = IF AfterStatus(st) = "done" THEN Err("Unauthorized")
                        ELSE result
    /\ UNCHANGED <<mode, script, wire, ioLocal, cfg, dialed, upstream, returned>>
    /\ UNCHANGED codecVars
    /\ UNCHANGED otherVars

\* lines 88-125: the Command frame is in; the server rejects it or calls the
\* dial callback with its destination
ServerCommand ==
    /\ mode = "server" /\ pc = "Command"
    /\ Decoded.kind = "Some"
    /\ rbuf' = Decoded.rest
    /\ recvd' = Append(recvd, Decoded.item)
    /\ LET c == Decoded.item
       IN  IF ~CommandSupported(c.code)
           THEN /\ sent' = Append(sent, Frame(CommandReply))
                /\ result' = ErrRep(COMMAND_NOT_SUPPORTED)
                /\ pc' = "done"
                /\ dialed' = dialed
           ELSE IF ~AddressTypeSupported(c.atyp)
           THEN /\ sent' = Append(sent, Frame(FailureReply(ADDRESS_TYPE_NOT_SUPPORTED)))
                /\ result' = Err("AddressTypeNotSupported")
                /\ pc' = "done"
                /\ dialed' = dialed
           ELSE /\ dialed' = Append(dialed, Destination(c.atyp, c.addr, c.port))
                /\ pc' = "connect"
                /\ UNCHANGED <<sent, result>>
    /\ UNCHANGED <<mode, script, wire, ioLocal, cfg, upstream, returned>>
    /\ UNCHANGED codecVars
    /\ UNCHANGED otherVars

\* lines 125-141: the dial callback has answered
ServerConnect ==
    /\ mode = "server" /\ pc = "connect"
    /\ \E answer \in DialAnswers :
          /\ upstream' = answer
          /\ IF answer.kind = "Err"
             THEN /\ sent' = Append(sent, Frame(DialFailureReply))
                  /\ result' = Err("Dial")
                  /\ returned' = returned
             ELSE IF answer.remote_addr.kind = "Err"
             THEN /\ result' = Err("Io")
                  /\ UNCHANGED <<sent, returned>>
             ELSE /\ sent' = Append(sent, Frame(SuccessReply(answer.remote_addr.v)))
                  /\ result' = OkWith(answer)
                  /\ returned' = wire
    /\ pc' = "done"
    /\ UNCHANGED <<mode, script, wire, ioLocal, cfg, rbuf, recvd, dialed>>
    /\ UNCHANGED codecVars
    /\ UNCHANGED otherVars

----------------------------------------------------------------------------
(* client.rs: Builder::handshake *)

\* the methods the client offers (lines 26-30)
OfferedMethods(authorization) ==
    IF authorization.kind = "Some"
    THEN <<NO_AUTHENTICATION_REQUIRED, USERNAME_AND_PASSWORD>>
    ELSE <<NO_AUTHENTICATION_REQUIRED>>

\* Offered, were only NO_ACCEPTABLE turned down
OfferedUnlessNoAcceptable(authorization, selection) ==
    selection # NO_ACCEPTABLE_METHODS

\* methods.contains(&selection) (line 43)
Offered(authorization, selection) ==
    \E i \in 1..Len(OfferedMethods(authorization)) :
        OfferedMethods(authorization)[i] = selection

\* StatusAccepted, were the status not looked at
StatusAcceptedAlways(status) == TRUE

\* status != AUTH_SUCCEED (line 56)
StatusAccepted(status) == status = AUTH_SUCCEED

\* ReplyAccepted, were the reply code not looked at
ReplyAcceptedAlways(rep) == TRUE

\* rep != SUCCEEDED (line 76)
ReplyAccepted(rep) == rep = SUCCEEDED

\* the request the client writes (lines 67-71)
ConnectCommand(destination) ==
    Command(CONNECT, destination.aty, destination.host, destination.port)

ClientDestinations ==
    {None,
     Some(Destination(DST_IPV4, <<127, 0, 0, 1>>, 4660)),
     Some(Destination(DST_DOMAIN, <<101, 120>>, 80))}

ClientSelections == {<<SOCKS_VERSION, m>> : m \in {0, 2, 255}} \cup {<<4, 0>>}
ClientStatuses ==
    {<<>>} \cup {<<AUTH_VERSION, st>> : st \in {AUTH_SUCCEED, AUTH_FAILED}}
    \cup {<<SOCKS_VERSION, AUTH_SUCCEED>>}
ClientReplies ==
    {encode(CommandReply).bytes,
     RawRequest(SUCCEEDED, DST_IPV4, <<127, 0, 0, 1, 18, 52>>),
     RawRequest(SUCCEEDED, DST_DOMAIN, <<2, 2, 101, 0, 80>>),
     RawRequest(9, DST_IPV6, [i \in 1..18 |-> i]),
     WithVersion(4, RawRequest(SUCCEEDED, DST_IPV4, <<127, 0, 0, 1, 18, 52>>))}

ClientInit ==
    /\ mode = "client"
    /\ cfg \in [authorization : Authorizations, destination : ClientDestinations]
    /\ script \in [selection : ClientSelections,
                   auth : ClientStatuses,
                   reply : ClientReplies,
                   payload : Payloads]
    /\ wire = script.selection \o script.auth \o script.reply \o script.payload
    /\ ioLocal = Idle
    /\ pc = "start"
    /\ rbuf = <<>> /\ recvd = <<>> /\ sent = <<>> /\ dialed = <<>>
    /\ upstream = Idle /\ result = Idle /\ returned = <<>>
    /\ item = Idle /\ buf = <<>> /\ item1 = Idle /\ step = "idle" /\ cut = -1
    /\ client = Idle /\ head = <<>>

\* lines 26-41: the client writes its methods and waits for the selection
ClientStart ==
    /\ mode = "client" /\ pc = "start"
    /\ sent' = Append(sent, Frame(Methods(OfferedMethods(cfg.authorization))))
    /\ pc' = "Selection"
    /\ UNCHANGED <<mode, script, wire, ioLocal, cfg, rbuf, recvd, dialed, upstream,
                   result, returned>>
    /\ UNCHANGED codecVars
    /\ UNCHANGED otherVars

\* lines 66-73: self.destination.clone().unwrap(), then the request is written
ClientWriteDestination(frames) ==
    IF cfg.destination.kind = "None"
    THEN /\ result' = Panic
         /\ pc' = "done"
         /\ sent' = frames
    ELSE /\ sent' = Append(frames, Frame(ConnectCommand(cfg.destination.v)))
         /\ pc' = "Reply"
         /\ result' = result

\* lines 43-63: the Selection frame is in
ClientSelection ==
    /\ mode = "client" /\ pc = "Selection"
    /\ Decoded.kind = "Some"
    /\ rbuf' = Decoded.rest
    /\ recvd' = Append(recvd, Decoded.item)
    /\ LET selection == Decoded.item.method
       IN  IF ~Offered(cfg.authorization, selection)
           THEN /\ result' = Err("UnknownMethod")
                /\ pc' = "done"
                /\ sent' = sent
           ELSE IF selection = USERNAME_AND_PASSWORD
           THEN IF cfg.authorization.kind = "Some"
                THEN /\ sent' = Append(sent, Frame(UsernamePassword(
                                    cfg.authorization.v[1], cfg.authorization.v[2])))
                     /\ pc' = "Status"
                     /\ result' = result
                ELSE /\ result' = Err("Unauthorized")
                     /\ pc' = "done"
                     /\ sent' = sent
           ELSE ClientWriteDestination(sent)
    /\ UNCHANGED <<mode, script, wire, ioLocal, cfg, dialed, upstream, returned>>
    /\ UNCHANGED codecVars
    /\ UNCHANGED otherVars

\* lines 49-59: the Status frame is in
ClientStatus ==
    /\ mode = "client" /\ pc = "Status"
    /\ Decoded.kind = "Some"
    /\ rbuf' = Decoded.rest
    /\ recvd' = Append(recvd, Decoded.item)
    /\ IF ~StatusAccepted(Decoded.item.status)
       THEN /\ result' = Err("Unauthorized")
            /\ pc' = "done"
            /\ sent' = sent
       ELSE ClientWriteDestination(sent)
    /\ UNCHANGED <<mode, script, wire, ioLocal, cfg, dialed, upstream, returned>>
    /\ UNCHANGED codecVars
    /\ UNCHANGED otherVars

\* lines 68-81: the Reply frame is in; on success the stream is handed back
ClientReply ==
    /\ mode = "client" /\ pc = "Reply"
    /\ Decoded.kind = "Some"
    /\ rbuf' = Decoded.rest
    /\ recvd' = Append(recvd, Decoded.item)
    /\ IF ~ReplyAccepted(Decoded.item.code)
       THEN /\ result' = ErrRep(Decoded.item.code)
            /\ returned' = returned
       ELSE /\ result' = Ok
            /\ returned' = wire
    /\ pc' = "done"
    /\ UNCHANGED <<mode, script, wire, ioLocal, cfg, sent, dialed, upstream>>
    /\ UNCHANGED codecVars
    /\ UNCHANGED otherVars

----------------------------------------------------------------------------

Init == ServerInit \/ ClientInit

Next ==
    \/ Read \/ Eof \/ RecvFail
    \/ ServerMethods \/ ServerUsernamePassword \/ ServerCommand \/ ServerConnect
    \/ ClientStart \/ ClientSelection \/ ClientStatus \/ ClientReply

Spec == Init /\ [][Next]_vars

----------------------------------------------------------------------------
(* The client handshake against the server handshake over one reliable     *)
(* stream (tests/test.rs: echo).  The server is the handshake above; the   *)
(* client at the far end is the record `client`.  What the client writes   *)
(* goes onto `wire`; what the server has written and the client has not    *)
(* read yet is Back.                                                       *)

\* the bytes of the frames written, in order
RECURSIVE Flat(_)
Flat(frames) ==
    IF frames = <<>> THEN <<>> ELSE frames[1].bytes \o Flat(Tail(frames))

\* the server's bytes the client has not read yet
Back == Rest(Flat(sent), client.nread)

\* the server handshake has returned an error or panicked: its stream is dropped
ServerClosed == pc = "done" /\ result.kind # "Ok"

\* what the codec makes of the client's read buffer at the stage send_wait set
ClientDecoded == decode(client.pc, client.rbuf)

\* where the client handshake goes: the frames it writes, the stage it
\* waits in next (or "done"), and what it returns
ClientGoes(frames, stage, res) == [send |-> frames, pc |-> stage, result |-> res]

\* ClientSendsCommand, were the request written a second time without the
\* reply to the first having been waited for
ClientSendsCommandTwice(destination) ==
    IF destination.kind = "None"
    THEN ClientGoes(<<>>, "done", Panic)
    ELSE ClientGoes(<<ConnectCommand(destination.v), ConnectCommand(destination.v)>>,
                    "Reply", Idle)

\* client.rs lines 66-73: unwrap the destination, write the request
ClientSendsCommand(destination) ==
    IF destination.kind = "None"
    THEN ClientGoes(<<>>, "done", Panic)
    ELSE ClientGoes(<<ConnectCommand(destination.v)>>, "Reply", Idle)

\* client.rs lines 43-81: what the handshake does with the item send_wait
\* returned
ClientOn(c, it) ==
    CASE it.tag = "Selection" ->
            IF ~Offered(c.authorization, it.method)
            THEN ClientGoes(<<>>, "done", Err("UnknownMethod"))
            ELSE IF it.method = USERNAME_AND_PASSWORD
            THEN IF c.authorization.kind = "Some"
                 THEN ClientGoes(<<UsernamePassword(c.authorization.v[1],
                                                    c.authorization.v[2])>>,
                                 "Status", Idle)
                 ELSE ClientGoes(<<>>, "done", Err("Unauthorized"))
            ELSE ClientSendsCommand(c.destination)
      [] it.tag = "Status" ->
            IF ~StatusAccepted(it.status)
            THEN ClientGoes(<<>>, "done", Err("Unauthorized"))
            ELSE ClientSendsCommand(c.destination)
      [] it.tag = "Reply" ->
            IF ~ReplyAccepted(it.code)
            THEN ClientGoes(<<>>, "done", ErrRep(it.code))
            ELSE ClientGoes(<<>>, "done", Ok)

\* "alice" and "secret"
Alice == <<97, 108, 105, 99, 101>>
Secret == <<115, 101, 99, 114, 101, 116>>

\* the credentials the server Builder may hold
E2EServerAuthorizations == Authorizations \cup {Some(<<Alice, Secret>>)}

\* the credentials and destinations the client Builder may hold
E2EAuthorizations == E2EServerAuthorizations \cup {Some(<<User, <<98>>>>)}
E2EDestinations ==
    {None,
     Some(Destination(DST_IPV4, <<127, 0, 0, 1>>, 4660)),
     Some(Destination(DST_IPV6, [i \in 1..16 |-> i], 80)),
     Some(Destination(DST_DOMAIN, <<101, 120>>, 80)),
     Some(Destination(DST_DOMAIN, <<2, 101>>, 80))}

E2EInit ==
    /\ mode = "server"
    /\ cfg \in [authorization : E2EServerAuthorizations, destination : {None}]
    /\ script = Idle /\ wire = <<>>
    /\ ioLocal = SocketAddrV4(<<127, 0, 0, 1>>, 4660)
    /\ pc = "Methods"
    /\ rbuf = <<>> /\ recvd = <<>> /\ sent = <<>> /\ dialed = <<>>
    /\ upstream = Idle /\ result = Idle /\ returned = <<>>
    /\ client \in [cfg : [authorization : E2EAuthorizations,
                          destination : E2EDestinations],
                   pc : {"start"}, rbuf : {<<>>}, nread : {0},
                   recvd : {<<>>}, sent : {<<>>}, result : {Idle}]
    /\ head = <<>>
    /\ item = Idle /\ buf = <<>> /\ item1 = Idle /\ step = "idle" /\ cut = -1

\* client.rs lines 26-41: the client writes its methods and waits
E2EClientStart ==
    /\ client.pc = "start"
    /\ LET f == Frame(Methods(OfferedMethods(client.cfg.authorization)))
       IN  /\ client' = [client EXCEPT !.sent = Append(@, f), !.pc = "Selection"]
           /\ wire' = wire \o f.bytes
    /\ UNCHANGED <<mode, script, ioLocal, cfg, pc, rbuf, recvd, sent, dialed,
                   upstream, result, returned, head>>
    /\ UNCHANGED codecVars

\* Framed::poll_next at the client: nothing decodable yet, bytes arrive
E2EClientRead ==
    /\ client.pc \in RecvStages
    /\ ClientDecoded.kind = "None"
    /\ \E n \in 1..Len(Back) :
          client' = [client EXCEPT !.rbuf = @ \o SubSeq(Back, 1, n),
                                   !.nread = @ + n]
    /\ UNCHANGED <<mode, script, wire, ioLocal, cfg, pc, rbuf, recvd, sent, dialed,
                   upstream, result, returned, head>>
    /\ UNCHANGED codecVars

\* send_wait returns at the client (a frame, a decoder failure, or the end
\* of the stream) and the handshake goes on from there
E2EClientRecv ==
    /\ client.pc \in RecvStages
    /\ IF ClientDecoded.kind = "None" THEN Back = <<>> /\ ServerClosed ELSE TRUE
    /\ LET d == ClientDecoded
           go == CASE d.kind = "Some" -> ClientOn(client.cfg, d.item)
                   [] d.kind = "Err" -> ClientGoes(<<>>, "done", Err(d.err))
                   [] d.kind = "Panic" -> ClientGoes(<<>>, "done", Panic)
                   [] d.kind = "None" -> ClientGoes(<<>>, "done", Err("Io"))
           frames == [i \in 1..Len(go.send) |-> Frame(go.send[i])]
       IN  /\ client' = [client EXCEPT
                           !.rbuf = IF d.kind = "Some" THEN d.rest ELSE @,
                           !.recvd = IF d.kind = "Some" THEN Append(@, d.item) ELSE @,
                           !.sent = @ \o frames,
                           !.pc = go.pc,
                           !.result = go.result]
           /\ wire' = wire \o Flat(frames)
    /\ UNCHANGED <<mode, script, ioLocal, cfg, pc, rbuf, recvd, sent, dialed,
                   upstream, result, returned, head>>
    /\ UNCHANGED codecVars

E2ENext ==
    \/ Read \/ Eof \/ RecvFail
    \/ ServerMethods \/ ServerUsernamePassword \/ ServerCommand \/ ServerConnect
    \/ E2EClientStart \/ E2EClientRead \/ E2EClientRecv

\* each task runs when it can: the runtime polls a handshake whose stream has
\* bytes (or has ended), and the stream delivers what was written
SpecE2E == E2EInit /\ [][E2ENext]_vars /\ WF_vars(E2ENext)

----------------------------------------------------------------------------
(* leo: the HTTP CONNECT handshake (src/leo/src).  The stream is a         *)
(* buffered one (AsyncBufRead): rbuf is the bytes it has read from the     *)
(* peer and not handed out yet, head the Vec the parser reads the head     *)
(* into.  Texts are byte sequences.                                        *)

LF == 10
MAX_HEAD_LENGTH == 8 * 1024
HTTP_1_1_VERSION == 1

CRLF == <<13, LF>>

\* the texts the code writes and compares
Text ==
    [CONNECT |-> <<67, 79, 78, 78, 69, 67, 84>>,  \* CONNECT
     GET |-> <<71, 69, 84>>,  \* GET
     HTTP11 |-> <<72, 84, 84, 80, 47, 49, 46, 49>>,  \* HTTP/1.1
     HTTP10 |-> <<72, 84, 84, 80, 47, 49, 46, 48>>,  \* HTTP/1.0
     HTTP20 |-> <<72, 84, 84, 80, 47, 50, 46, 48>>,  \* HTTP/2.0
     Host |-> <<72, 111, 115, 116>>,  \* Host
     host |-> <<104, 111, 115, 116>>,  \* host
     ProxyAuthorization |->  \* Proxy-Authorization
        <<80, 114, 111, 120, 121, 45, 65, 117, 116, 104, 111, 114, 105, 122, 97,
          116, 105, 111, 110>>,
     proxy_authorization |->  \* proxy-authorization
        <<112, 114, 111, 120, 121, 45, 97, 117, 116, 104, 111, 114, 105, 122, 97,
          116, 105, 111, 110>>,
     Basic |-> <<66, 97, 115, 105, 99, 32>>,  \* "Basic "
     ProxyAuthenticate |->  \* Proxy-Authenticate: Basic realm=Proxy Server\r\n
        <<80, 114, 111, 120, 121, 45, 65, 117, 116, 104, 101, 110, 116, 105, 99,
          97, 116, 101, 58, 32, 66, 97, 115, 105, 99, 32, 114, 101, 97, 108, 109,
          61, 80, 114, 111, 120, 121, 32, 83, 101, 114, 118, 101, 114, 13, 10>>]

\* http::StatusCode::canonical_reason, for the status codes that occur here:
\* the reason's text as the error carries it and as the status line spells it
\* (499 is a status code without one)
canonical_reason(code) ==
    CASE code = 200 -> Some([text |-> "OK", bytes |-> <<79, 75>>])
      [] code = 204 ->
            Some([text |-> "No Content",
                  bytes |-> <<78, 111, 32, 67, 111, 110, 116, 101, 110, 116>>])
      [] code = 401 ->
            Some([text |-> "Unauthorized",
                  bytes |-> <<85, 110, 97, 117, 116, 104, 111, 114, 105, 122, 101,
                              100>>])
      [] code = 404 ->
            Some([text |-> "Not Found",
                  bytes |-> <<78, 111, 116, 32, 70, 111, 117, 110, 100>>])
      [] code = 405 ->
            Some([text |-> "Method Not Allowed",
                  bytes |-> <<77, 101, 116, 104, 111, 100, 32, 78, 111, 116, 32, 65,
                              108, 108, 111, 119, 101, 100>>])
      [] code = 407 ->
            Some([text |-> "Proxy Authentication Required",
                  bytes |-> <<80, 114, 111, 120, 121, 32, 65, 117, 116, 104, 101,
                              110, 116, 105, 99, 97, 116, 105, 111, 110, 32, 82,
                              101, 113, 117, 105, 114, 101, 100>>])
      [] code = 505 ->
            Some([text |-> "HTTP Version Not Supported",
                  bytes |-> <<72, 84, 84, 80, 32, 86, 101, 114, 115, 105, 111, 110,
                              32, 78, 111, 116, 32, 83, 117, 112, 112, 111, 114,
                              116, 101, 100>>])
      [] code = 499 -> None

\* StatusCode::is_success
is_success(code) == code >= 200 /\ code < 300

\* format!("{}", n) of an unsigned number
RECURSIVE Decimal(_)
Decimal(n) ==
    IF n < 10 THEN <<48 + n>> ELSE Decimal(n \div 10) \o <<48 + (n % 10)>>

\* base64, the standard alphabet
B64Char(n) ==
    IF n < 26 THEN 65 + n
    ELSE IF n < 52 THEN 97 + (n - 26)
    ELSE IF n < 62 THEN 48 + (n - 52)
    ELSE IF n = 62 THEN 43 ELSE 47

\* Base64, were the padding left out
RECURSIVE Base64NoPad(_)
Base64NoPad(b) ==
    IF Len(b) = 0 THEN <<>>
    ELSE IF Len(b) = 1
    THEN <<B64Char(b[1] \div 4), B64Char((b[1] % 4) * 16)>>
    ELSE IF Len(b) = 2
    THEN <<B64Char(b[1] \div 4), B64Char((b[1] % 4) * 16 + b[2] \div 16),
           B64Char((b[2] % 16) * 4)>>
    ELSE <<B64Char(b[1] \div 4), B64Char((b[1] % 4) * 16 + b[2] \div 16),
           B64Char((b[2] % 16) * 4 + b[3] \div 64), B64Char(b[3] % 64)>>
         \o Base64NoPad(Rest(b, 3))

\* base64::engine::general_purpose::STANDARD.encode_string: with padding
RECURSIVE Base64(_)
Base64(b) ==
    IF Len(b) = 0 THEN <<>>
    ELSE IF Len(b) = 1
    THEN <<B64Char(b[1] \div 4), B64Char((b[1] % 4) * 16), 61, 61>>
    ELSE IF Len(b) = 2
    THEN <<B64Char(b[1] \div 4), B64Char((b[1] % 4) * 16 + b[2] \div 16),
           B64Char((b[2] % 16) * 4), 61>>
    ELSE <<B64Char(b[1] \div 4), B64Char((b[1] % 4) * 16 + b[2] \div 16),
           B64Char((b[2] % 16) * 4 + b[3] \div 64), B64Char(b[3] % 64)>>
         \o Base64(Rest(b, 3))

\* server::Builder::set_authorization: the value the server compares with
ServerAuthorization(username, password) ==
    Text.Basic \o Base64(username \o <<58>> \o password)

\* ClientAuthorization, were the client to encode without padding
ClientAuthorizationNoPad(username, password) ==
    Text.Basic \o Base64NoPad(username \o <<58>> \o password)

\* client::Builder::set_authorization: the value the client sends
ClientAuthorization(username, password) ==
    Text.Basic \o Base64(username \o <<58>> \o password)

\* a header as the encoder writes it and the parser returns it
Header(name, value) == [kind |-> "Header", name |-> name, value |-> value]

\* the lines of the headers: name ": " value CRLF (codec.rs lines 150-158)
RECURSIVE HeaderLines(_)
HeaderLines(headers) ==
    IF headers = <<>> THEN <<>>
    ELSE headers[1].name \o <<58, 32>> \o headers[1].value \o CRLF
         \o HeaderLines(Tail(headers))

\* codec.rs: encode_request
encode_request(host, port, headers) ==
    Text.CONNECT \o <<32>> \o host \o <<58>> \o Decimal(port) \o <<32>>
        \o Text.HTTP11 \o CRLF
    \o Text.Host \o <<58, 32>> \o host \o <<58>> \o Decimal(port) \o CRLF
    \o HeaderLines(headers)
    \o CRLF

\* codec.rs: encode_response
encode_response(status) ==
    Text.HTTP11 \o <<32>> \o Decimal(status) \o <<32>>
        \o canonical_reason(status).v.bytes \o CRLF
    \o (IF status = 407 THEN Text.ProxyAuthenticate ELSE <<>>)
    \o CRLF

----------------------------------------------------------------------------
(* httparse: Request::parse and Response::parse, on a buffer that ends     *)
(* with a line feed (the code parses once its loop has seen the end of the *)
(* head).  Complete(start line, headers), Partial, or an error.            *)

\* the first index of byte x in b, or 0
FirstIndex(b, x) ==
    LET S == {i \in 1..Len(b) : b[i] = x}
    IN  IF S = {} THEN 0 ELSE CHOOSE i \in S : \A j \in S : i <= j

\* the lines of b, each without its LF and the CR before it
RECURSIVE SplitLines(_)
SplitLines(b) ==
    IF b = <<>> THEN <<>>
    ELSE LET i == FirstIndex(b, LF)
             n == IF i = 0 THEN Len(b) ELSE i - 1
             m == IF n >= 1 /\ b[n] = 13 THEN n - 1 ELSE n
         IN  <<SubSeq(b, 1, m)>> \o (IF i = 0 THEN <<>> ELSE SplitLines(Rest(b, i)))

\* skip_empty_lines
RECURSIVE SkipEmpty(_)
SkipEmpty(lines) ==
    IF lines # <<>> /\ lines[1] = <<>> THEN SkipEmpty(Tail(lines)) ELSE lines

\* a header value without the blanks (SP, HT) around it
RECURSIVE Trim(_)
Trim(b) ==
    IF b = <<>> THEN b
    ELSE IF b[1] \in {32, 9} THEN Trim(Rest(b, 1))
    ELSE IF b[Len(b)] \in {32, 9} THEN Trim(SubSeq(b, 1, Len(b) - 1))
    ELSE b

\* a method or a header name: one or more token characters
IsToken(b) ==
    /\ b # <<>>
    /\ \A i \in 1..Len(b) :
          /\ b[i] >= 33 /\ b[i] <= 126
          /\ b[i] \notin {34, 40, 41, 44, 47, 58, 59, 60, 61, 62, 63, 64, 91, 92, 93,
                          123, 125}

\* a header value or a reason phrase: HT, the printable characters, obs-text
IsFieldText(b) ==
    \A i \in 1..Len(b) : b[i] = 9 \/ (b[i] >= 32 /\ b[i] <= 126) \/ b[i] >= 128

\* a request target: one or more visible characters
IsUri(b) == b # <<>> /\ \A i \in 1..Len(b) : b[i] >= 33 /\ b[i] <= 126

PErr == [kind |-> "Err"]
Partial == [kind |-> "Partial"]

\* "HTTP/1.0" is 0, "HTTP/1.1" is 1, anything else Error::Version
ParseVersion(b) ==
    IF b = Text.HTTP11 THEN [kind |-> "Version", version |-> HTTP_1_1_VERSION]
    ELSE IF b = Text.HTTP10 THEN [kind |-> "Version", version |-> 0]
    ELSE PErr

\* the request line: method SP target SP version
RequestLine(l) ==
    LET s1 == FirstIndex(l, 32)
        rest == Rest(l, s1)
        s2 == FirstIndex(rest, 32)
        method == SubSeq(l, 1, s1 - 1)
        target == SubSeq(rest, 1, s2 - 1)
        version == ParseVersion(Rest(rest, s2))
    IN  IF s1 = 0 \/ s2 = 0 \/ ~IsToken(method) \/ ~IsUri(target)
           \/ version.kind = "Err"
        THEN PErr
        ELSE [kind |-> "Request", method |-> method, version |-> version.version]

\* the status line: version SP three digits, then nothing or SP reason
StatusLine(l) ==
    IF Len(l) < 12 THEN PErr
    ELSE LET version == ParseVersion(SubSeq(l, 1, 8))
             digits == SubSeq(l, 10, 12)
         IN  IF \/ version.kind = "Err" \/ l[9] # 32
                \/ \E i \in 1..3 : digits[i] < 48 \/ digits[i] > 57
                \/ (Len(l) > 12 /\ (l[13] # 32 \/ ~IsFieldText(Rest(l, 13))))
             THEN PErr
             ELSE [kind |-> "Response", version |-> version.version,
                   code |-> (digits[1] - 48) * 100 + (digits[2] - 48) * 10
                            + (digits[3] - 48)]

\* a header line: name ":" value
HeaderLine(l) ==
    LET c == FirstIndex(l, 58)
        name == SubSeq(l, 1, c - 1)
        value == Trim(Rest(l, c))
    IN  IF c = 0 \/ ~IsToken(name) \/ ~IsFieldText(value) THEN PErr
        ELSE Header(name, value)

\* more headers than the array holds is Error::TooManyHeaders
MAX_HEADERS == 128

\* the head whose start line is in and whose lines end with the empty line e
ParseHeaders(start, lines, e) ==
    IF start.kind = "Err" THEN PErr
    ELSE IF e = 0 THEN Partial
    ELSE IF \/ e - 2 > MAX_HEADERS
            \/ \E i \in 2..(e - 1) : HeaderLine(lines[i]).kind = "Err"
    THEN PErr
    ELSE [kind |-> "Complete", start |-> start,
          headers |-> [i \in 1..(e - 2) |-> HeaderLine(lines[i + 1])]]

\* the lines of a head: the start line, then the headers up to the first
\* empty line
ParseLines(lines, request) ==
    IF lines = <<>> THEN Partial
    ELSE ParseHeaders(IF request THEN RequestLine(lines[1]) ELSE StatusLine(lines[1]),
                      lines, FirstIndex(lines, <<>>))

\* httparse::Request::parse (request) and httparse::Response::parse
Parse(b, request) == ParseLines(SkipEmpty(SplitLines(b)), request)

\* u8::to_ascii_lowercase over a name
Lower(b) == [i \in 1..Len(b) |-> IF b[i] >= 65 /\ b[i] <= 90 THEN b[i] + 32 ELSE b[i]]

\* FindHeader, were the last header of that name taken
FindHeaderLast(headers, name) ==
    LET S == {i \in 1..Len(headers) : Lower(headers[i].name) = name}
    IN  IF S = {} THEN None
        ELSE LET i == CHOOSE i \in S : \A j \in S : j <= i
             IN  IF IsUtf8(headers[i].value) THEN Some(headers[i].value) ELSE None

\* .find(|x| x.name.eq_ignore_ascii_case(name))
\* .and_then(|x| std::str::from_utf8(x.value).ok())
FindHeader(headers, name) ==
    LET S == {i \in 1..Len(headers) : Lower(headers[i].name) = name}
    IN  IF S = {} THEN None
        ELSE LET i == CHOOSE i \in S : \A j \in S : i <= j
             IN  IF IsUtf8(headers[i].value) THEN Some(headers[i].value) ELSE None

----------------------------------------------------------------------------
(* codec.rs: parse_request and parse_response *)

\* AsyncBufReadExt::read_until: of the bytes the reader has buffered it
\* appends those up to and including the first LF, or all of them
Taken(rb) ==
    LET i == FirstIndex(rb, LF) IN IF i = 0 THEN rb ELSE SubSeq(rb, 1, i)

\* &buf[buf.len() - t.len()..] == t
EndsWith(b, t) == Len(b) >= Len(t) /\ SubSeq(b, Len(b) - Len(t) + 1, Len(b)) = t

\* the loop's body once read_until has returned bytes: the assert, then the
\* tests for the end of the head (the response parser also takes LF LF)
HeadTurn(b, lflf) ==
    IF ~(Len(b) < MAX_HEAD_LENGTH) THEN "panic"
    ELSE IF EndsWith(b, CRLF \o CRLF) THEN "break"
    ELSE IF lflf /\ EndsWith(b, <<LF, LF>>) THEN "break"
    ELSE "more"

\* Ok(Some((status, host)))
Verdict(status, host) == [kind |-> "Some", status |-> status, host |-> host]

\* parse_request lines 63-93: the credentials, then the host
Authorize(proxy_auth, auth, host) ==
    IF proxy_auth.kind = "Some" /\ auth.kind = "Some" /\ proxy_auth.v # auth.v
    THEN Verdict(401, None)
    ELSE IF proxy_auth.kind = "None" /\ auth.kind = "Some"
    THEN Verdict(407, None)
    ELSE Verdict(200, host)

\* parse_request lines 50-93: what it makes of httparse's answer r
RequestChecks(r, auth) ==
    IF r.kind = "Err" THEN Err("Httparse")
    ELSE IF r.kind = "Partial" THEN Panic
    ELSE IF r.start.method # Text.CONNECT THEN Verdict(405, None)
    ELSE IF r.start.version # HTTP_1_1_VERSION THEN Verdict(505, None)
    ELSE Authorize(FindHeader(r.headers, Text.proxy_authorization), auth,
                   FindHeader(r.headers, Text.host))

\* parse_request after its loop
parse_request(b, auth) == RequestChecks(Parse(b, TRUE), auth)

\* http::StatusCode::from_u16(v).ok()
from_u16(v) == IF v >= 100 /\ v < 1000 THEN Some(v) ELSE None

\* ResponseChecks, were the version of the response not looked at
ResponseChecksAnyVersion(r) ==
    IF r.kind = "Err" THEN Err("Httparse")
    ELSE IF r.kind = "Partial" THEN Panic
    ELSE from_u16(r.start.code)

\* parse_response lines 127-140: what it makes of httparse's answer r
ResponseChecks(r) ==
    IF r.kind = "Err" THEN Err("Httparse")
    ELSE IF r.kind = "Partial" THEN Panic
    ELSE IF r.start.version # HTTP_1_1_VERSION THEN None
    ELSE from_u16(r.start.code)

\* parse_response after its loop
parse_response(b) == ResponseChecks(Parse(b, FALSE))

----------------------------------------------------------------------------
(* The handshakes.  The peer's bytes are on their way (wire); the buffered *)
(* reader takes some of them into its buffer when that is empty, and       *)
(* read_until moves them on into the head line by line.                    *)

\* errors.rs: Error::Http and Error::HttpStatus
ErrHttp(reason) == [kind |-> "Err", err |-> "Http", reason |-> reason]
ErrHttpStatus(reason) == [kind |-> "Err", err |-> "HttpStatus", reason |-> reason]

\* server.rs: Ok((io, host))
OkHost(host) == [kind |-> "Ok", host |-> host]

\* what was written to the peer: the message and its bytes
HttpResponse(status) ==
    [item |-> [tag |-> "Response", status |-> status],
     bytes |-> encode_response(status)]
HttpRequest(host, port, headers) ==
    [item |-> [tag |-> "Request", headers |-> headers],
     bytes |-> encode_request(host, port, headers)]

\* server.rs: Builder::auth
ServerAuth(authorization) ==
    IF authorization.kind = "Some"
    THEN Some(ServerAuthorization(authorization.v[1], authorization.v[2]))
    ELSE None

\* client.rs lines 28-31: the headers of the request (a HeaderName spells
\* itself in lower case)
ClientHeaders(authorization) ==
    IF authorization.kind = "Some"
    THEN <<Header(Text.proxy_authorization,
                  ClientAuthorization(authorization.v[1], authorization.v[2]))>>
    ELSE <<>>

\* server.rs lines 29-41: what the handshake returns after the response
ServerResult(v) ==
    IF ~is_success(v.status) THEN ErrHttpStatus(canonical_reason(v.status).v.text)
    ELSE IF v.host.kind = "Some" THEN OkHost(v.host.v)
    ELSE ErrHttp("non host")

\* client.rs lines 38-49: what the handshake returns for parse_response's
\* answer
ClientResult(v) ==
    IF v.kind = "None" THEN ErrHttpStatus("non status code")
    ELSE IF is_success(v.v) THEN Ok
    ELSE IF canonical_reason(v.v).kind = "Some"
    THEN ErrHttpStatus(canonical_reason(v.v).v.text)
    ELSE ErrHttpStatus("non canonical reason")

\* Returned, were the handshake to hand back the inner stream without the
\* reader's buffer
ReturnedInner(rb, w) == w

\* the stream a handshake returns is the buffered reader it was given: it
\* yields what the reader still holds, then what the peer's stream brings
Returned(rb, w) == rb \o w

MaxFill == 2
MaxChunked == 128
SegmentSize == 4096

\* how many bytes one read of the stream may bring: a few of those on their
\* way or all of them, so that a read may end at any byte of them; a long
\* run arrives in segments
FillSizes(w) ==
    IF Len(w) <= MaxChunked THEN {n \in 1..Len(w) : n <= MaxFill \/ n = Len(w)}
    ELSE {IF Len(w) < SegmentSize THEN Len(w) ELSE SegmentSize}

\* a request or response as a peer may spell it
StartLine3(a, b, c) == a \o <<32>> \o b \o <<32>> \o c \o CRLF
PeerHead(startline, headers) == startline \o HeaderLines(headers) \o CRLF

Target == <<104, 58, 49>>  \* h:1

\* the Proxy-Authorization headers a peer may send: none, the ones the
\* client makes of credentials, a value that is not UTF-8, two of them, and
\* one under a lower-case name
PeerAuthHeaders ==
    {<<>>,
     <<Header(Text.ProxyAuthorization, ClientAuthorization(User, Pass))>>,
     <<Header(Text.ProxyAuthorization, ClientAuthorization(User, <<98>>))>>,
     <<Header(Text.ProxyAuthorization, <<255>>)>>,
     <<Header(Text.ProxyAuthorization, ClientAuthorization(User, <<98>>)),
       Header(Text.ProxyAuthorization, ClientAuthorization(User, Pass))>>,
     <<Header(Text.proxy_authorization, ClientAuthorization(User, Pass))>>}

\* the Host headers a peer may send: the target, none, two under names in
\* different case, and a value that is not UTF-8
PeerHostHeaders ==
    {<<Header(Text.Host, Target)>>,
     <<>>,
     <<Header(<<104, 79, 83, 84>>, <<120>>), Header(Text.Host, Target)>>,
     <<Header(Text.Host, <<255>>)>>}

\* a request head with its parts on record
Request(method, version, headers) ==
    [kind |-> "request", method |-> method, version |-> version,
     headers |-> headers,
     hs |-> PeerHead(StartLine3(method, Target, version), headers)]

\* bytes that are no such head
Raw(bytes) ==
    [kind |-> "raw", method |-> <<>>, version |-> <<>>, headers |-> <<>>,
     hs |-> bytes]

\* a CONNECT request filled up to n bytes by a header X
Padded(n) ==
    LET base == Len(Request(Text.CONNECT, Text.HTTP11,
                            <<Header(Text.Host, Target), Header(<<88>>, <<>>)>>).hs)
    IN  Request(Text.CONNECT, Text.HTTP11,
                <<Header(Text.Host, Target),
                  Header(<<88>>, [i \in 1..(n - base) |-> 97])>>)

\* a request that ends its lines with LF alone
LfOnly ==
    Text.CONNECT \o <<32>> \o Target \o <<32>> \o Text.HTTP11 \o <<LF>>
    \o Text.Host \o <<58, 32>> \o Target \o <<LF, LF>>

ServerHeads ==
    {Request(m, v, h \o a) :
        m \in {Text.CONNECT, Text.GET}, v \in {Text.HTTP11, Text.HTTP10},
        h \in {<<Header(Text.Host, Target)>>}, a \in PeerAuthHeaders}
    \cup {Request(Text.CONNECT, Text.HTTP11, h \o a) :
            h \in PeerHostHeaders,
            a \in {<<>>, <<Header(Text.ProxyAuthorization,
                                  ClientAuthorization(User, Pass))>>}}
    \cup {Request(Text.CONNECT, Text.HTTP20, <<Header(Text.Host, Target)>>)}
    \cup {Request(Text.CONNECT, Text.HTTP11, ClientHeaders(a)
                      \o <<Header(Text.Host, Target)>>) : a \in Authorizations}
    \cup {Padded(MAX_HEAD_LENGTH - 1), Padded(MAX_HEAD_LENGTH),
          Padded(MAX_HEAD_LENGTH + 8)}
    \cup {Raw(<<>>), Raw(CRLF \o CRLF), Raw(LfOnly),
          Raw(SubSeq(LfOnly, 1, 12)),
          Raw(StartLine3(Text.CONNECT, Target, Text.HTTP11) \o Text.Host
              \o CRLF \o CRLF),
          Raw([i \in 1..(MAX_HEAD_LENGTH + 8) |-> 97])}

\* what a peer sends after its head: opaque bytes, a line feed among them
LeoPayloads == Payloads \cup {<<201, LF>>}

LeoServerInit ==
    /\ mode = "leo_server"
    /\ cfg \in [authorization : Authorizations]
    /\ \E h \in ServerHeads, p \in LeoPayloads :
          script = [kind |-> h.kind, method |-> h.method, version |-> h.version,
                    headers |-> h.headers, hs |-> h.hs, payload |-> p]
    /\ wire = script.hs \o script.payload
    /\ pc = "Request"
    /\ ioLocal = Idle
    /\ rbuf = <<>> /\ recvd = <<>> /\ sent = <<>> /\ dialed = <<>>
    /\ upstream = Idle /\ result = Idle /\ returned = <<>>
    /\ item = Idle /\ buf = <<>> /\ item1 = Idle /\ step = "idle" /\ cut = -1
    /\ client = Idle /\ head = <<>>

\* a response head with its parts on record, or bytes that are none
Response(version, code, bytes) ==
    [kind |-> IF version = <<>> THEN "raw" ELSE "response",
     version |-> version, code |-> code, hs |-> bytes]

\* a status line: version SP code, a reason if there is one
StatusLineOf(version, code, reason) ==
    version \o <<32>> \o (IF code < 100 THEN <<48>> ELSE <<>>) \o Decimal(code)
    \o (IF reason = <<>> THEN <<>> ELSE <<32>> \o reason)

\* the response of the library's server with its status
ServerResponse(status) == Response(Text.HTTP11, status, encode_response(status))

\* what the library's server writes back to the request of a client that
\* holds `authorization`, when it holds `held` itself
ServerReply(authorization, destination, held) ==
    ServerResponse(parse_request(
                       encode_request(destination.host, destination.port,
                                      ClientHeaders(authorization)),
                       ServerAuth(held)).status)

ClientDestination == [host |-> <<104>>, port |-> 443]

ClientHeads(authorization) ==
    {ServerResponse(c) : c \in {200, 204, 404, 407}}
    \cup {ServerReply(authorization, ClientDestination, held) :
            held \in Authorizations \cup {Some(<<User, <<98>>>>)}}
    \cup {Response(Text.HTTP11, 200,
                   StatusLineOf(Text.HTTP11, 200, <<79, 75>>) \o <<LF, LF>>),
          Response(Text.HTTP11, 200,
                   PeerHead(StatusLineOf(Text.HTTP11, 200, <<>>) \o CRLF,
                            <<Header(<<88>>, <<255>>)>>)),
          Response(Text.HTTP11, 499,
                   PeerHead(StatusLineOf(Text.HTTP11, 499, <<>>) \o CRLF, <<>>)),
          Response(Text.HTTP11, 99,
                   PeerHead(StatusLineOf(Text.HTTP11, 99, <<>>) \o CRLF, <<>>)),
          Response(Text.HTTP10, 200,
                   PeerHead(StatusLineOf(Text.HTTP10, 200, <<79, 75>>) \o CRLF,
                            <<>>)),
          Response(Text.HTTP20, 200,
                   PeerHead(StatusLineOf(Text.HTTP20, 200, <<79, 75>>) \o CRLF,
                            <<>>)),
          Response(<<>>, 0, <<>>),
          Response(<<>>, 0, CRLF \o CRLF),
          Response(<<>>, 0, <<LF, LF>>),
          Response(<<>>, 0, <<120>> \o CRLF \o CRLF),
          Response(<<>>, 0, StatusLineOf(Text.HTTP11, 200, <<79, 75>>) \o CRLF),
          Response(<<>>, 0, SubSeq(Text.HTTP11, 1, 6)),
          Response(<<>>, 0, [i \in 1..(MAX_HEAD_LENGTH + 8) |-> 97])}

LeoClientInit ==
    /\ mode = "leo_client"
    /\ cfg \in [authorization : Authorizations,
                destination : {None, Some(ClientDestination)}]
    /\ \E h \in ClientHeads(cfg.authorization), p \in LeoPayloads :
          script = [kind |-> h.kind, version |-> h.version, code |-> h.code,
                    hs |-> h.hs, payload |-> p]
    /\ wire = script.hs \o script.payload
    /\ pc = "start"
    /\ ioLocal = Idle
    /\ rbuf = <<>> /\ recvd = <<>> /\ sent = <<>> /\ dialed = <<>>
    /\ upstream = Idle /\ result = Idle /\ returned = <<>>
    /\ item = Idle /\ buf = <<>> /\ item1 = Idle /\ step = "idle" /\ cut = -1
    /\ client = Idle /\ head = <<>>

LeoReading == pc \in {"Request", "Response"}

\* the head once read_until has taken what the reader holds, and the turn
\* the loop takes then (read_until returns only with an LF or at the end)
HeadNext == head \o Taken(rbuf)
TurnNext ==
    IF HeadNext[Len(HeadNext)] = LF THEN HeadTurn(HeadNext, pc = "Response")
    ELSE "more"

\* poll_fill_buf: the reader's buffer is empty and the stream has bytes
LeoFill ==
    /\ LeoReading
    /\ rbuf = <<>>
    /\ \E n \in FillSizes(wire) :
          /\ rbuf' = SubSeq(wire, 1, n)
          /\ wire' = Rest(wire, n)
    /\ UNCHANGED <<mode, script, ioLocal, cfg, pc, recvd, sent, dialed, upstream,
                   result, returned>>
    /\ UNCHANGED codecVars
    /\ UNCHANGED <<client, head>>

\* read_until: buffered bytes go into the head, and the head is not over
LeoReadLine ==
    /\ LeoReading
    /\ rbuf # <<>>
    /\ TurnNext = "more"
    /\ head' = HeadNext
    /\ rbuf' = Rest(rbuf, Len(Taken(rbuf)))
    /\ UNCHANGED <<mode, script, wire, ioLocal, cfg, pc, recvd, sent, dialed,
                   upstream, result, returned>>
    /\ UNCHANGED codecVars
    /\ UNCHANGED client

\* the assert on the head's length fails
LeoHeadTooLong ==
    /\ LeoReading
    /\ rbuf # <<>>
    /\ TurnNext = "panic"
    /\ head' = HeadNext
    /\ rbuf' = Rest(rbuf, Len(Taken(rbuf)))
    /\ result' = Panic
    /\ pc' = "done"
    /\ UNCHANGED <<mode, script, wire, ioLocal, cfg, recvd, sent, dialed,
                   upstream, returned>>
    /\ UNCHANGED codecVars
    /\ UNCHANGED client

\* the stream ends inside the head: read_until returns what it has of a
\* last line (the assert applies), then 0, and the parser gives Ok(None)
LeoEof ==
    /\ LeoReading
    /\ rbuf = <<>> /\ wire = <<>>
    /\ result' = IF head # <<>> /\ head[Len(head)] # LF
                    /\ ~(Len(head) < MAX_HEAD_LENGTH)
                 THEN Panic
                 ELSE IF pc = "Request" THEN ErrHttp("non http request")
                 ELSE ClientResult(None)
    /\ pc' = "done"
    /\ UNCHANGED <<mode, script, wire, ioLocal, cfg, rbuf, recvd, sent, dialed,
                   upstream, returned>>
    /\ UNCHANGED codecVars
    /\ UNCHANGED otherVars

\* server.rs lines 23-42: parse_request's answer v is an error or a panic,
\* or a verdict, whose response is written and flushed before the handshake
\* returns
ServerAnswer(v) ==
    /\ sent' = IF v.kind = "Some" THEN Append(sent, HttpResponse(v.status)) ELSE sent
    /\ result' = IF v.kind = "Some" THEN ServerResult(v) ELSE v
    /\ returned' = IF v.kind = "Some" /\ ServerResult(v).kind = "Ok"
                   THEN Returned(rbuf', wire)
                   ELSE returned

\* server.rs: handshake, once the request head is in
LeoServerRequest ==
    /\ pc = "Request"
    /\ rbuf # <<>>
    /\ TurnNext = "break"
    /\ head' = HeadNext
    /\ rbuf' = Rest(rbuf, Len(Taken(rbuf)))
    /\ ServerAnswer(parse_request(HeadNext, ServerAuth(cfg.authorization)))
    /\ pc' = "done"
    /\ UNCHANGED <<mode, script, wire, ioLocal, cfg, recvd, dialed, upstream>>
    /\ UNCHANGED codecVars
    /\ UNCHANGED client

\* client.rs: handshake up to the flush of the request
LeoClientStart ==
    /\ mode = "leo_client" /\ pc = "start"
    /\ IF cfg.destination.kind = "None"
       THEN /\ result' = ErrHttp("host and port required")
            /\ pc' = "done"
            /\ sent' = sent
       ELSE /\ sent' = Append(sent, HttpRequest(cfg.destination.v.host,
                                                cfg.destination.v.port,
                                                ClientHeaders(cfg.authorization)))
            /\ pc' = "Response"
            /\ result' = result
    /\ UNCHANGED <<mode, script, wire, ioLocal, cfg, rbuf, recvd, dialed, upstream,
                   returned>>
    /\ UNCHANGED codecVars
    /\ UNCHANGED otherVars

\* client.rs lines 38-49: parse_response's answer v is an error or a panic,
\* or a status code or none
ClientAnswer(v) ==
    /\ result' = IF v.kind \in {"Some", "None"} THEN ClientResult(v) ELSE v
    /\ returned' = IF v.kind \in {"Some", "None"} /\ ClientResult(v).kind = "Ok"
                   THEN Returned(rbuf', wire)
                   ELSE returned

\* client.rs: handshake, once the response head is in
LeoClientResponse ==
    /\ pc = "Response"
    /\ rbuf # <<>>
    /\ TurnNext = "break"
    /\ head' = HeadNext
    /\ rbuf' = Rest(rbuf, Len(Taken(rbuf)))
    /\ ClientAnswer(parse_response(HeadNext))
    /\ pc' = "done"
    /\ UNCHANGED <<mode, script, wire, ioLocal, cfg, recvd, sent, dialed,
                   upstream>>
    /\ UNCHANGED codecVars
    /\ UNCHANGED client

LeoInit == LeoServerInit \/ LeoClientInit

LeoNext ==
    \/ LeoFill \/ LeoReadLine \/ LeoHeadTooLong \/ LeoEof
    \/ LeoServerRequest \/ LeoClientStart \/ LeoClientResponse

SpecLeo == LeoInit /\ [][LeoNext]_vars

\* the handshakes of both libraries, each against a scripted peer
HandshakesInit == Init \/ LeoInit

HandshakesNext == Next \/ LeoNext

SpecHandshakes == HandshakesInit /\ [][HandshakesNext]_vars

----------------------------------------------------------------------------
(* The codec's claims *)

\* C1: round trip.  For every frame F of the six variants, decoding the
\* bytes the encoder produced for F, at F's stage, returns exactly F (and
\* consumes all of them).
C1_RoundTrip ==
    (step = "decoded" /\ cut = -1) =>
        (item1.kind = "Some" /\ item1.item = item /\ buf = <<>>)

\* C2: partial-input safety.  For every frame F and every strict prefix of
\* encode(F), the decoder at F's stage returns "need more" (no frame, no
\* error, no panic) and leaves the buffer as it was.
C2_PartialInputNeedsMore ==
    (step = "decoded" /\ cut >= 0) =>
        (item1.kind = "None" /\ buf = SubSeq(encode(item).bytes, 1, cut))

----------------------------------------------------------------------------
(* The handshakes' claims.  "The server receives a frame" is: recv returned *)
(* it (it is in recvd); "writes a frame" is: frame.send wrote it (sent).   *)

Last(seq) == seq[Len(seq)]

\* the frames of `seq` (recvd items, or sent frames) that satisfy P
Indices(seq, P(_)) == {i \in 1..Len(seq) : P(seq[i])}

IsSuccessReply(f) == f.item.tag = "Reply" /\ f.item.code = SUCCEEDED
IsReply(f) == f.item.tag = "Reply"
IsCommandFrame(f) == f.item.tag = "Command"
IsAuthSucceed(f) == f.item = Status(AUTH_SUCCEED)
IsCommandItem(it) == it.tag = "Command"

\* C3: post-handshake byte preservation, client and server.  When the
\* peer's bytes are handshake bytes followed by payload, in any chunking,
\* the stream a successful handshake returns yields exactly the payload.
C3_PayloadPreserved ==
    (result.kind = "Ok" /\ Len(rbuf) + Len(wire) = Len(script.payload))
        => returned = script.payload

\* C4: server authentication gate.  With credentials configured, the dial
\* callback is invoked and Reply(SUCCEEDED) is written only after the server
\* received a UsernamePassword byte-equal to the configured pair and wrote
\* Status(AUTH_SUCCEED).
C4_AuthGate ==
    (/\ mode = "server" /\ cfg.authorization.kind = "Some"
     /\ (dialed # <<>> \/ Indices(sent, IsSuccessReply) # {}))
    => /\ \E i \in 1..Len(recvd) :
            recvd[i] = UsernamePassword(cfg.authorization.v[1], cfg.authorization.v[2])
       /\ \E j \in Indices(sent, IsAuthSucceed) :
            \A k \in Indices(sent, IsSuccessReply) : j < k

C4_Witness ==
    /\ mode = "server" /\ cfg.authorization.kind = "Some"
    /\ dialed # <<>> /\ Indices(sent, IsSuccessReply) # {}

\* the request the peer sends carries an address type the server does not
\* support, and the server has come to read it
UnsupportedAtypRequested ==
    /\ mode = "server"
    /\ ~AddressTypeSupported(At(script.request, 3))
    /\ IF cfg.authorization.kind = "Some"
       THEN Indices(sent, IsAuthSucceed) # {}
       ELSE script.auth = <<>> /\ Len(recvd) >= 1

\* C5: unsupported address type.  When the request frame carries an
\* address-type byte outside {IPv4, DOMAIN, IPv6}, the server writes
\* Reply(ADDRESS_TYPE_NOT_SUPPORTED, IPv4, 0.0.0.0, 0) before the handshake
\* fails, and the dial callback is not invoked.
C5_AtypReplyWritten ==
    (UnsupportedAtypRequested /\ pc = "done")
    => /\ result.kind = "Err"
       /\ dialed = <<>>
       /\ Len(sent) >= 1
       /\ Last(sent) = Frame(FailureReply(ADDRESS_TYPE_NOT_SUPPORTED))

\* the server received credentials that differ from the configured ones
MismatchReceived ==
    /\ mode = "server" /\ cfg.authorization.kind = "Some"
    /\ \E i \in 1..Len(recvd) :
          /\ recvd[i].tag = "UsernamePassword"
          /\ (recvd[i].user # cfg.authorization.v[1]
              \/ recvd[i].pass # cfg.authorization.v[2])

\* the client received a Status other than AUTH_SUCCEED
FailedStatusReceived ==
    /\ mode = "client"
    /\ \E i \in 1..Len(recvd) :
          recvd[i].tag = "Status" /\ recvd[i].status # AUTH_SUCCEED

\* C6: credentials mismatch.  The server that selected USER_PASS and
\* received a UsernamePassword differing from the configured pair writes
\* Status(AUTH_FAILED) (01 01) and fails with Unauthorized; it reads no
\* Command, never dials and writes nothing further.  A client that receives
\* a Status other than AUTH_SUCCEED fails with Unauthorized.
C6_Mismatch ==
    /\ MismatchReceived =>
          /\ sent = <<Frame(Selection(USERNAME_AND_PASSWORD)), Frame(Status(AUTH_FAILED))>>
          /\ Last(sent).bytes = <<1, 1>>
          /\ result = Err("Unauthorized") /\ pc = "done"
          /\ Indices(recvd, IsCommandItem) = {}
          /\ dialed = <<>>
    /\ FailedStatusReceived =>
          /\ result = Err("Unauthorized") /\ pc = "done"
          /\ Indices(sent, IsCommandFrame) = {}

C6_Witness == MismatchReceived /\ Len(sent) = 2

\* the server, with credentials, received Methods without USER_PASS
NoUserPassOffered ==
    /\ mode = "server" /\ cfg.authorization.kind = "Some"
    /\ Len(recvd) >= 1 /\ recvd[1].tag = "Methods"
    /\ \A i \in 1..Len(recvd[1].methods) : recvd[1].methods[i] # USERNAME_AND_PASSWORD

\* C7: method rejection with credentials configured.  When the Methods list
\* lacks USER_PASS the server writes Selection(NO_ACCEPTABLE) (05 ff) and
\* fails with UnknownMethod; it reads no Command and never dials.
C7_MethodRejected ==
    NoUserPassOffered =>
        /\ sent = <<Frame(Selection(NO_ACCEPTABLE_METHODS))>>
        /\ sent[1].bytes = <<5, 255>>
        /\ result = Err("UnknownMethod") /\ pc = "done"
        /\ Len(recvd) = 1
        /\ dialed = <<>>

C7_Witness == NoUserPassOffered /\ result.kind = "Err"

\* the server received a Command whose command byte is not CONNECT
NonConnectReceived ==
    /\ mode = "server"
    /\ \E i \in 1..Len(recvd) : recvd[i].tag = "Command" /\ recvd[i].code # CONNECT

\* the client received the reply the server writes for such a command
CommandNotSupportedReceived ==
    /\ mode = "client"
    /\ \E i \in 1..Len(recvd) :
          recvd[i].tag = "Reply" /\ recvd[i].code = COMMAND_NOT_SUPPORTED

\* C8: unsupported command.  The server that received a Command other than
\* CONNECT writes Reply(COMMAND_NOT_SUPPORTED, IPv4, 0.0.0.0, 0), the bytes
\* 05 07 00 01 00 00 00 00 00 00, as its only reply, then fails, and never
\* dials; the client that gets this reply fails with the reply code 0x07.
C8_CommandNotSupported ==
    /\ NonConnectReceived =>
          /\ Last(sent).item = Reply(COMMAND_NOT_SUPPORTED, DST_IPV4, <<0, 0, 0, 0>>, 0)
          /\ Last(sent).bytes = <<5, 7, 0, 1, 0, 0, 0, 0, 0, 0>>
          /\ Cardinality(Indices(sent, IsReply)) = 1
          /\ result.kind = "Err" /\ pc = "done"
          /\ dialed = <<>>
    /\ CommandNotSupportedReceived =>
          /\ result.kind = "Err" /\ result.err = "Rep" /\ result.rep = 7
          /\ pc = "done"

C8_Witness == NonConnectReceived /\ result = ErrRep(COMMAND_NOT_SUPPORTED)

\* the dial callback returned an error
DialFailed == mode = "server" /\ upstream.kind = "Err"

\* C9: dial failure.  When the dial callback returns an error the server
\* writes Reply(HOST_UNREACHABLE, IPv4, 0.0.0.0, 0) and then returns the dial
\* error; it never writes Reply(SUCCEEDED) in that execution.
C9_DialFailure ==
    DialFailed =>
        /\ Last(sent) = Frame(Reply(HOST_UNREACHABLE, DST_IPV4, <<0, 0, 0, 0>>, 0))
        /\ Cardinality(Indices(sent, IsReply)) = 1
        /\ Indices(sent, IsSuccessReply) = {}
        /\ result = Err("Dial") /\ pc = "done"

C9_Witness == DialFailed /\ Len(dialed) = 1 /\ pc = "done"

\* the dial callback returned an upstream stream
DialSucceeded == mode = "server" /\ pc = "done" /\ upstream.kind = "Ok"

\* the Reply(SUCCEEDED) whose bound address is the socket address a
ReplyBoundTo(a) ==
    Reply(SUCCEEDED, IF a.fam = "V4" THEN DST_IPV4 ELSE DST_IPV6, a.ip, a.port)

----------------------------------------------------------------------------
(* The claims of a client handshake against a server handshake *)

\* the client has a destination, and credentials the server accepts
E2EConfigured ==
    /\ client.cfg.destination.kind = "Some"
    /\ (cfg.authorization.kind = "None" \/ cfg.authorization = client.cfg.authorization)

\* the dial callback failed, or gave a stream that does not tell its address
DialBroken ==
    \/ upstream.kind = "Err"
    \/ (upstream.kind = "Ok" /\ upstream.remote_addr.kind = "Err")

\* both handshakes returned success, the dial callback having been handed
\* the client's destination
BothSucceeded ==
    /\ result.kind = "Ok" /\ client.result = Ok
    /\ dialed = <<client.cfg.destination.v>>

\* C11: end to end.  For a client configured with any destination (IPv4,
\* IPv6 or domain) talking to the server over a reliable stream, with a dial
\* callback that succeeds, both handshakes eventually return success, and
\* the Destination handed to the dial callback is the client's.
C11_EndToEnd == E2EConfigured => <>(DialBroken \/ BothSucceeded)

----------------------------------------------------------------------------
(* The client handshake's claims, against any peer *)

IsUserPassFrame(f) == f.item.tag = "UsernamePassword"

\* the list the claim has the client offer
OfferedList == IF cfg.authorization.kind = "Some" THEN <<0, 2>> ELSE <<0>>

\* the client received a Selection that is not in that list
UnofferedSelectionReceived ==
    /\ mode = "client"
    /\ \E i \in 1..Len(recvd) :
          /\ recvd[i].tag = "Selection"
          /\ \A j \in 1..Len(OfferedList) : OfferedList[j] # recvd[i].method

\* C12: client method negotiation.  The client's first frame is
\* Methods([NO_AUTH]) without credentials and Methods([NO_AUTH, USER_PASS])
\* with; when the Selection it receives is NO_ACCEPTABLE or any method it
\* did not offer, it fails with UnknownMethod and sends no further frame.
C12_MethodNegotiation ==
    mode = "client" =>
        /\ Len(sent) >= 1 =>
              /\ sent[1].item = Methods(OfferedList)
              /\ sent[1].bytes = <<5, Len(OfferedList)>> \o OfferedList
        /\ UnofferedSelectionReceived =>
              /\ result = Err("UnknownMethod") /\ pc = "done"
              /\ Len(sent) = 1

C12_Witness ==
    /\ UnofferedSelectionReceived
    /\ recvd[1] = Selection(USERNAME_AND_PASSWORD)
    /\ result = Err("UnknownMethod")

\* the client received Selection(m)
SelectionReceived(m) ==
    mode = "client" /\ \E i \in 1..Len(recvd) : recvd[i] = Selection(m)

\* the client received Status(AUTH_SUCCEED)
AuthSucceedReceived ==
    mode = "client" /\ \E i \in 1..Len(recvd) : recvd[i] = Status(AUTH_SUCCEED)

\* C13: client authentication step.  The client (with credentials) sends
\* UsernamePassword(u, p), with the configured pair, if and only if the
\* server selected USER_PASS; it sends Command(CONNECT, destination) only
\* after NO_AUTH was selected or Status(AUTH_SUCCEED) was received; on any
\* other Status it fails with Unauthorized and sends no Command.
C13_AuthStep ==
    mode = "client" =>
        /\ \A i \in Indices(sent, IsUserPassFrame) :
              /\ SelectionReceived(USERNAME_AND_PASSWORD)
              /\ cfg.authorization.kind = "Some"
              /\ sent[i].item = UsernamePassword(cfg.authorization.v[1],
                                                 cfg.authorization.v[2])
        /\ (SelectionReceived(USERNAME_AND_PASSWORD) /\ cfg.authorization.kind = "Some")
              => Cardinality(Indices(sent, IsUserPassFrame)) = 1
        /\ \A i \in Indices(sent, IsCommandFrame) :
              /\ SelectionReceived(NO_AUTHENTICATION_REQUIRED) \/ AuthSucceedReceived
              /\ sent[i].item = Command(CONNECT, cfg.destination.v.aty,
                                        cfg.destination.v.host, cfg.destination.v.port)
        /\ FailedStatusReceived =>
              /\ result = Err("Unauthorized") /\ pc = "done"
              /\ Indices(sent, IsCommandFrame) = {}

C13_Witness ==
    /\ mode = "client" /\ AuthSucceedReceived
    /\ Indices(sent, IsUserPassFrame) # {}
    /\ Indices(sent, IsCommandFrame) # {}

\* the client received a Reply whose code is other than SUCCEEDED
FailureReplyReceived ==
    /\ mode = "client"
    /\ \E i \in 1..Len(recvd) : recvd[i].tag = "Reply" /\ recvd[i].code # 0

\* C14: client result.  The client handshake returns success if and only if
\* the Reply it received has rep = SUCCEEDED; for every other rep it fails
\* with Rep(rep), carrying the code and its canonical reason ("unknown" for
\* an unassigned code).
C14_ClientResult ==
    mode = "client" =>
        /\ result.kind = "Ok" <=>
              \E i \in 1..Len(recvd) : recvd[i].tag = "Reply" /\ recvd[i].code = 0
        /\ \A i \in 1..Len(recvd) :
              (recvd[i].tag = "Reply" /\ recvd[i].code # 0) =>
                  /\ pc = "done"
                  /\ result = [kind |-> "Err", err |-> "Rep", rep |-> recvd[i].code,
                               reason |-> rep_str(recvd[i].code)]
                  /\ recvd[i].code = 7 => result.reason = "command not supported"
                  /\ recvd[i].code = 9 => result.reason = "unknown"

C14_Witness ==
    /\ FailureReplyReceived
    /\ result.kind = "Err" /\ result.err = "Rep" /\ result.rep = 9

----------------------------------------------------------------------------
(* The HTTP CONNECT claims *)

\* the server has been sent a request head that httparse takes (a method, a
\* target, HTTP/1.0 or HTTP/1.1, headers, the empty line) and that is
\* shorter than the cap
CompleteRequestHead ==
    /\ mode = "leo_server"
    /\ script.kind = "request"
    /\ script.version \in {Text.HTTP11, Text.HTTP10}
    /\ Len(script.hs) < MAX_HEAD_LENGTH

\* the value of the first header of that name the peer sent, as bytes
SentHeader(name) ==
    LET S == {i \in 1..Len(script.headers) : Lower(script.headers[i].name) = name}
    IN  IF S = {} THEN None
        ELSE Some(script.headers[CHOOSE i \in S : \A j \in S : i <= j].value)

\* the policy table, row by row
PolicyCode ==
    IF script.method # Text.CONNECT THEN 405
    ELSE IF script.version # Text.HTTP11 THEN 505
    ELSE IF cfg.authorization.kind = "None" THEN 200
    ELSE IF SentHeader(Text.proxy_authorization).kind = "None" THEN 407
    ELSE IF SentHeader(Text.proxy_authorization).v
            # ServerAuthorization(cfg.authorization.v[1], cfg.authorization.v[2])
    THEN 401
    ELSE 200

\* C15: HTTP CONNECT server policy.  For a complete request head the
\* response written is the one of the first matching row: method not
\* CONNECT 405, version not HTTP/1.1 505, credentials configured and no
\* Proxy-Authorization header 407, credentials configured and the header's
\* value not byte-equal to the configured one 401, otherwise 200; a non-200
\* response is written before the handshake returns failure.
C15_ServerPolicy ==
    (CompleteRequestHead /\ pc = "done") =>
        /\ Len(sent) = 1
        /\ sent[1].item.status = PolicyCode
        /\ sent[1].bytes = encode_response(PolicyCode)
        /\ (PolicyCode # 200 => result.kind = "Err")

\* C16: HTTP head cap.  The head buffer of parse_request and parse_response
\* never holds more than MAX_HEAD_LENGTH bytes, wherever the peer's bytes
\* have line feeds or none, and a handshake whose peer sent a head longer
\* than that does not succeed.
C16_HeadCap ==
    /\ Len(head) <= MAX_HEAD_LENGTH
    /\ (pc = "done" /\ Len(script.hs) > MAX_HEAD_LENGTH => result.kind # "Ok")

\* the value a server holding these credentials compares with
Configured(authorization) ==
    ServerAuthorization(authorization.v[1], authorization.v[2])

\* a CONNECT request for HTTP/1.1 with a Proxy-Authorization header has
\* reached a server that holds credentials, and the handshake has returned
AuthorizationSent ==
    /\ CompleteRequestHead /\ pc = "done"
    /\ script.method = Text.CONNECT /\ script.version = Text.HTTP11
    /\ cfg.authorization.kind = "Some"
    /\ SentHeader(Text.proxy_authorization).kind = "Some"

\* the client's peer is the library's server holding `held`, and the
\* client's handshake has returned
AnsweredBy(held) ==
    /\ mode = "leo_client" /\ pc = "done"
    /\ cfg.destination.kind = "Some"
    /\ script.hs = ServerReply(cfg.authorization, cfg.destination.v, held).hs

\* C17: HTTP CONNECT credentials agreement.  The value a client makes of
\* (user, pass) is byte-equal to the one a server makes of them; a request
\* whose Proxy-Authorization value is the server's gets 200, one whose value
\* differs from it gets 401 and fails; and against the library's server the
\* client succeeds with the server's credentials and fails with others.
C17_CredentialsAgreement ==
    /\ \A c \in PeerCredentials :
          ClientAuthorization(c[1], c[2]) = ServerAuthorization(c[1], c[2])
    /\ AuthorizationSent =>
          /\ Len(sent) = 1
          /\ IF SentHeader(Text.proxy_authorization).v = Configured(cfg.authorization)
             THEN sent[1].item.status = 200
             ELSE sent[1].item.status = 401 /\ result.kind = "Err"
    /\ \A held \in {Some(<<User, Pass>>), Some(<<User, <<98>>>>)} :
          AnsweredBy(held) => (result.kind = "Ok" <=> cfg.authorization = held)

\* the client's handshake, with a destination, has returned
ClientReturned ==
    mode = "leo_client" /\ pc = "done" /\ cfg.destination.kind = "Some"

\* the peer's bytes are a response of HTTP/1.1 with a status code
StatusSent ==
    /\ script.kind = "response" /\ script.version = Text.HTTP11
    /\ script.code >= 100

\* success is an HTTP/1.1 response with a 2xx status code, read to the end
\* of its head, and nothing else
SuccessIs2xx ==
    /\ result.kind = "Ok" <=> (StatusSent /\ script.code >= 200 /\ script.code < 300)
    /\ result.kind = "Ok" => head = script.hs

ServerReturned == mode = "leo_server" /\ pc = "done"

\* C19: HTTP CONNECT server target.  When the server's handshake succeeds it
\* returns the value of the first Host header of the request, the name
\* compared without regard to case, byte for byte; a request without a Host
\* header fails, after its 200 response when the request is otherwise in
\* order.
C19_ServerTarget ==
    ServerReturned =>
        /\ result.kind = "Ok" =>
              /\ SentHeader(Text.host).kind = "Some"
              /\ result = OkHost(SentHeader(Text.host).v)
        /\ SentHeader(Text.host).kind = "None" =>
              /\ result.kind # "Ok"
              /\ (CompleteRequestHead /\ PolicyCode = 200)
                    => result = ErrHttp("non host")

\* a request with the headers `hOST: x` and `Host: h:1`, in this order, has
\* succeeded with the target x
C19_Witness ==
    /\ ServerReturned
    /\ Len(script.headers) >= 2
    /\ Lower(script.headers[1].name) = Text.host
    /\ Lower(script.headers[2].name) = Text.host
    /\ script.headers[1].value # script.headers[2].value
    /\ result = OkHost(script.headers[1].value)

\* C20: HTTP CONNECT post-handshake byte preservation, client and server.
\* When a handshake succeeds, the head buffer holds exactly the peer's head,
\* up to and including its terminator, and the stream the handshake returns
\* yields exactly the payload the peer sent after it, however the peer's
\* bytes were split into reads.
C20_PayloadPreserved ==
    (mode \in {"leo_server", "leo_client"} /\ result.kind = "Ok") =>
        /\ head = script.hs
        /\ returned = script.payload

\* a server handshake has succeeded when bytes of the payload were already
\* in the reader's buffer
C20_Witness ==
    /\ ServerReturned /\ result.kind = "Ok"
    /\ rbuf # <<>> /\ rbuf \o wire = script.payload
    /\ returned = script.payload

----------------------------------------------------------------------------
(* The ordering of the frames of a client handshake against a server       *)
(* handshake *)

\* the items of the frames written
Items(frames) == [i \in 1..Len(frames) |-> frames[i].item]

IsPrefix(s, t) == Len(s) <= Len(t) /\ s = SubSeq(t, 1, Len(s))

\* the frames on the wire in the order they were written, the client's and
\* the server's taking turns
Turns(cs, ss) ==
    [i \in 1..(Len(cs) + Len(ss)) |->
        IF i % 2 = 1 THEN cs[(i + 1) \div 2].item.tag ELSE ss[i \div 2].item.tag]

\* the two orders of a handshake, without and with the credentials exchange
WireOrders ==
    {<<"Methods", "Selection", "Command", "Reply">>,
     <<"Methods", "Selection", "UsernamePassword", "Status", "Command", "Reply">>}

\* the client is at most one frame ahead of the server; the frames form a
\* prefix of one of the orders; what the server has received are the client's
\* frames, and it has written no more frames than it has received; what the
\* client has received are the server's frames, and it has written at most
\* one frame more than it has received
WireOrdered ==
    /\ Len(sent) <= Len(client.sent)
    /\ Len(client.sent) <= Len(sent) + 1
    /\ \E order \in WireOrders : IsPrefix(Turns(client.sent, sent), order)
    /\ IsPrefix(recvd, Items(client.sent))
    /\ Len(sent) <= Len(recvd)
    /\ IsPrefix(client.recvd, Items(sent))
    /\ Len(client.sent) <= Len(client.recvd) + 1

\* a step writes at most one frame, after the ones written before
OneFrameAtATime ==
    /\ IsPrefix(sent, sent')
    /\ IsPrefix(client.sent, client'.sent)
    /\ Len(sent') + Len(client'.sent) <= Len(sent) + Len(client.sent) + 1

\* C21: wire ordering.  In every execution of a client handshake against a
\* server handshake the frames on the wire strictly alternate and form a
\* prefix of Methods, Selection, [UsernamePassword, Status], Command, Reply;
\* the server writes a frame only after it has received the complete client
\* frame it answers, and the client writes its next frame only after it has
\* received the server's answer to the previous one.
C21_WireOrdering == [][OneFrameAtATime /\ WireOrdered']_vars

\* all six frames have been written
C21_Witness ==
    /\ client # Idle
    /\ Len(sent) = 3 /\ Len(client.sent) = 3
    /\ Turns(client.sent, sent) \in WireOrders

----------------------------------------------------------------------------
(* The last frame of a handshake *)

\* a frame after which the handshake is over for the peer: a refusal of the
\* methods or of the credentials, a reply, an HTTP response
IsTerminal(f) ==
    \/ f.item.tag = "Selection" /\ f.item.method = NO_ACCEPTABLE_METHODS
    \/ f.item.tag = "Status" /\ f.item.status = AUTH_FAILED
    \/ f.item.tag = "Reply"
    \/ f.item.tag = "Response"

\* C22: the terminal reply is last.  Once a handshake has written a
\* terminal frame (SOCKS Selection(NO_ACCEPTABLE), Status(AUTH_FAILED) or
\* any Reply; or an HTTP response), the library writes no further bytes on
\* that stream; in particular every server handshake writes at most one
\* Reply (SOCKS) or one response (HTTP).
C22_TerminalLast ==
    /\ \A i \in 1..Len(sent) : IsTerminal(sent[i]) => i = Len(sent)
    /\ Cardinality({i \in 1..Len(sent) :
                        sent[i].item.tag \in {"Reply", "Response"}}) <= 1

\* the SOCKS server has refused the credentials, its second frame, and
\* returned
C22_Witness ==
    /\ mode = "server" /\ pc = "done"
    /\ Len(sent) = 2
    /\ sent[2].item = Status(AUTH_FAILED)

\* the HTTP server has written its response and returned
C22_ResponseWritten ==
    /\ mode = "leo_server" /\ pc = "done"
    /\ Len(sent) = 1
    /\ sent[1].item.tag = "Response"

----------------------------------------------------------------------------
(* A frame of another version *)

\* the version octet of a stage's frames
VersionOf(stage) ==
    IF stage \in {"UsernamePassword", "Status"} THEN AUTH_VERSION ELSE SOCKS_VERSION

\* the read buffer starts with a complete frame of the stage the handshake
\* waits in, but for its version octet: with the right octet in front the
\* decoder returns a frame
WrongVersionFrame ==
    /\ pc \in RecvStages
    /\ rbuf # <<>>
    /\ rbuf[1] # VersionOf(pc)
    /\ decode(pc, WithVersion(VersionOf(pc), rbuf)).kind = "Some"

\* C23: a version mismatch is an error outcome.  In every stage, a complete
\* frame whose version byte is wrong (not 0x05 in Methods, Selection,
\* Command, Reply; not 0x01 in UsernamePassword, Status) makes decoding fail
\* with a fatal protocol error that the handshake returns as an error value;
\* no frame is emitted for it and the handshake does not proceed to the next
\* stage.
C23_VersionMismatch ==
    [][WrongVersionFrame =>
          (result'.kind = "Err" /\ pc' = "done" /\ sent' = sent /\ recvd' = recvd)]_vars

\* all that holds of such a frame: the handshake ends there, in a panic, and
\* nothing is written for it
C23_VersionPanics ==
    [][WrongVersionFrame =>
          (result' = Panic /\ pc' = "done" /\ sent' = sent /\ recvd' = recvd)]_vars

----------------------------------------------------------------------------
(* The encoder's claim *)

\* the encoder was given a Command or Reply whose address is not of its
\* family's length
MismatchEncoded ==
    /\ mode = "encoder" /\ step = "encoded"
    /\ item.tag \in {"Command", "Reply"}
    /\ ~AddressLengthAgrees(item)

\* C24: address-length agreement in the encoder.  Encoding a Command or
\* Reply with family IPv4 and an address that is not exactly 4 bytes, or
\* family IPv6 and an address that is not exactly 16 bytes, fails with an
\* error, and no frame with a mismatched address length is ever written to
\* the wire.
C24_EncoderAddressLength ==
    MismatchEncoded => (result.kind = "Err" /\ buf # encode(item).bytes)

\* what the encoder does instead: it panics with the frame begun, or it
\* returns Ok with the mismatched frame written out
C24_PanicsOrWrites ==
    MismatchEncoded =>
        \/ result = Panic /\ buf = RequestHead(item)
        \/ result = Ok /\ buf = RequestHead(item) \o item.addr \o U16Bytes(item.port)

----------------------------------------------------------------------------
(* The size of the frames and of the read buffer *)

\* C25: the SOCKS buffer bound.  Every SOCKS frame the codec accepts
\* encodes to at most 262 bytes, and at every point of a SOCKS handshake the
\* decoder's receive buffer holds at most 262 bytes, whatever the peer
\* sends.
C25_BufferBound ==
    mode \in {"server", "client"} =>
        /\ \A i \in 1..Len(recvd) : Len(encode(recvd[i]).bytes) <= 262
        /\ Len(rbuf) <= 262

\* the codec has returned a frame of 513 bytes
C25_LongFrameAccepted ==
    /\ mode = "server"
    /\ Len(recvd) = 2
    /\ Len(encode(recvd[2]).bytes) = 513

----------------------------------------------------------------------------
(* The user/password run of a client handshake against a server handshake *)

\* client and server both hold ("alice", "secret"), the client has a
\* destination, and both handshakes are over, the dial callback having
\* given a stream that tells its address if it was called
AliceRunOver ==
    /\ cfg.authorization = Some(<<Alice, Secret>>)
    /\ client.cfg.authorization = Some(<<Alice, Secret>>)
    /\ client.cfg.destination.kind = "Some"
    /\ pc = "done" /\ client.pc = "done"
    /\ ~DialBroken

\* the frames after the greeting as the trace has them: the selection
\* 05 02, the credentials 01 05 'alice' 06 'secret', the status 01 00, the
\* CONNECT request, a reply with code 00
AliceFramesAfterGreeting ==
    /\ Len(client.sent) = 3 /\ Len(sent) = 3
    /\ sent[1].bytes = <<5, 2>>
    /\ client.sent[2].bytes = <<1, 5>> \o Alice \o <<6>> \o Secret
    /\ sent[2].bytes = <<1, 0>>
    /\ client.sent[3].item = ConnectCommand(client.cfg.destination.v)
    /\ client.sent[3].bytes = encode(client.sent[3].item).bytes
    /\ sent[3].item.tag = "Reply" /\ sent[3].bytes[2] = 0

\* C26: the SOCKS5 username/password success trace.  With client and server
\* both configured with ("alice","secret"), the bytes on the wire are, in
\* order, the greeting 05 01 02, the selection 05 02, the credentials
\* 01 05 'alice' 06 'secret', the status 01 00, the CONNECT request and a
\* reply with code 00, and both handshakes succeed.
C26_SuccessTrace ==
    AliceRunOver =>
        /\ client.sent[1].bytes = <<5, 1, 2>>
        /\ AliceFramesAfterGreeting
        /\ result.kind = "Ok" /\ client.result = Ok

\* what holds of the runs in which both handshakes do succeed: the greeting
\* offers both methods, 05 02 00 02, and the rest is as the trace has it
C26_TraceOfSuccess ==
    (AliceRunOver /\ result.kind = "Ok" /\ client.result = Ok) =>
        /\ client.sent[1].bytes = <<5, 2, 0, 2>>
        /\ AliceFramesAfterGreeting

\* such a run
C26_SuccessReached == AliceRunOver /\ result.kind = "Ok" /\ client.result = Ok

----------------------------------------------------------------------------
(* The decoder's claim on a frame followed by more bytes *)

\* C27: the frame boundary.  For every SOCKS frame F and every byte string
\* S, decoding encode(F) followed by S with the decoder set to F's stage
\* returns F and leaves exactly S in the buffer; the decoder consumes exactly
\* the bytes of one frame (for domain addresses 7 + dlen bytes with
\* dlen = byte[4]) and never reads a length from any other byte.
C27_FrameBoundary ==
    (mode = "boundary" /\ step = "decoded") =>
        /\ item1.kind = "Some"
        /\ item1.item = item
        /\ buf = wire

\* the frames of which it holds: all but those with a domain address
C27_BoundaryButDomain ==
    (mode = "boundary" /\ step = "decoded") =>
        \/ item.tag \in {"Command", "Reply"} /\ item.atyp = DST_DOMAIN
        \/ item1.kind = "Some" /\ item1.item = item /\ buf = wire

\* a frame with a domain address was cut off the bytes behind it: the
\* decoder took 7 + dlen bytes
C27_DomainConsumed ==
    /\ mode = "boundary" /\ step = "decoded"
    /\ item.tag = "Command" /\ item.atyp = DST_DOMAIN
    /\ item1.kind = "Some" /\ item1.item = item
    /\ wire # <<>> /\ buf = wire

----------------------------------------------------------------------------
(* The server's selection *)

\* the method m is in the list
Contains(methods, m) == \E i \in 1..Len(methods) : methods[i] = m

\* the client offered no method the server can go on with: USER_PASS for a
\* server with credentials, NO_AUTH for one without
MethodsRejected ==
    IF cfg.authorization.kind = "Some"
    THEN ~Contains(recvd[1].methods, USERNAME_AND_PASSWORD)
    ELSE ~Contains(recvd[1].methods, NO_AUTHENTICATION_REQUIRED)

\* C28: the server's selection is always legal.  The Selection frame the
\* server writes is either a method contained in the Methods list the client
\* sent or NO_ACCEPTABLE (0xff); in every method-rejection path, including a
\* server without credentials facing a client that did not offer NO_AUTH,
\* the server writes Selection(NO_ACCEPTABLE) before closing and never
\* proceeds to read a Command.
C28_SelectionLegal ==
    (mode = "server" /\ Len(recvd) >= 1) =>
        /\ sent[1].item.tag = "Selection"
        /\ \/ Contains(recvd[1].methods, sent[1].item.method)
           \/ sent[1].item.method = NO_ACCEPTABLE_METHODS
        /\ MethodsRejected =>
              /\ sent[1].item.method = NO_ACCEPTABLE_METHODS
              /\ pc = "done"
              /\ Len(recvd) = 1 /\ Len(sent) = 1

\* of a server with credentials it holds
C28_LegalWithCredentials ==
    (mode = "server" /\ Len(recvd) >= 1 /\ cfg.authorization.kind = "Some") =>
        /\ sent[1].item.tag = "Selection"
        /\ \/ Contains(recvd[1].methods, sent[1].item.method)
           \/ sent[1].item.method = NO_ACCEPTABLE_METHODS
        /\ MethodsRejected =>
              /\ sent[1].item.method = NO_ACCEPTABLE_METHODS
              /\ pc = "done"
              /\ Len(recvd) = 1 /\ Len(sent) = 1

\* a server without credentials has read the request of a client that did
\* not offer NO_AUTH
C28_CommandReadAfterIllegal ==
    /\ mode = "server" /\ cfg.authorization.kind = "None"
    /\ Len(recvd) = 2
    /\ ~Contains(recvd[1].methods, NO_AUTHENTICATION_REQUIRED)
    /\ recvd[2].tag = "Command"

----------------------------------------------------------------------------
(* The server's response and what its handshake returns *)

\* C29: the HTTP server never confirms a failed tunnel.  In every execution
\* of the HTTP CONNECT server handshake, a 200 OK response has been written
\* to the peer only if the handshake returns success with a tunnel target;
\* whenever the handshake returns an error, the peer has either received a
\* non-2xx response or no response.
C29_NoFalseConfirmation ==
    ServerReturned =>
        /\ (\E i \in 1..Len(sent) : sent[i].item.status = 200) =>
              (result.kind = "Ok" /\ result = OkHost(result.host))
        /\ result.kind = "Err" =>
              \A i \in 1..Len(sent) : ~is_success(sent[i].item.status)

\* what holds: a response that is not 200 goes with an error, success goes
\* with a 200 response, and a 200 response goes with success or with the
\* error "non host"
C29_ConfirmedOrNoHost ==
    ServerReturned =>
        /\ result.kind = "Ok" => (Len(sent) = 1 /\ sent[1].item.status = 200)
        /\ \A i \in 1..Len(sent) :
              IF sent[i].item.status = 200
              THEN result.kind = "Ok" \/ result = ErrHttp("non host")
              ELSE result.kind = "Err"

\* a 200 response was written for a request with a Host header whose value
\* is not UTF-8, and the handshake returned an error
C29_HostNotUtf8 ==
    /\ ServerReturned
    /\ Len(sent) = 1 /\ sent[1].item.status = 200
    /\ result = ErrHttp("non host")
    /\ SentHeader(Text.host).kind = "Some"

----------------------------------------------------------------------------
(* The length of the head at the cap *)

\* the peer's head is a well-formed request that ends in CRLF CRLF, and the
\* server's handshake is over
RequestHeadServed ==
    /\ ServerReturned
    /\ script.kind = "request"
    /\ EndsWith(script.hs, CRLF \o CRLF)

\* C30: the HTTP head cap boundary.  A request or response head whose total
\* length is at most 8192 bytes and that ends in CRLF CRLF is not rejected by
\* the length cap; only heads longer than 8192 bytes are rejected for length.
C30_HeadCapBoundary ==
    RequestHeadServed =>
        (result = Panic <=> Len(script.hs) > MAX_HEAD_LENGTH)

\* where the cap is: a head is rejected for its length from 8192 bytes on
C30_RejectedFromCap ==
    RequestHeadServed =>
        (result = Panic <=> Len(script.hs) >= MAX_HEAD_LENGTH)

\* a head of 8191 bytes was served
C30_BelowCapServed ==
    /\ RequestHeadServed
    /\ Len(script.hs) = MAX_HEAD_LENGTH - 1
    /\ result.kind = "Ok"

----------------------------------------------------------------------------
(* The destination the server hands to the dial callback *)

\* the family tag is one of the three, and the address has the family's
\* length, a domain at least lo bytes
WellFormedFrom(d, lo) ==
    CASE d.aty = DST_IPV4 -> Len(d.host) = 4
      [] d.aty = DST_IPV6 -> Len(d.host) = 16
      [] d.aty = DST_DOMAIN -> Len(d.host) >= lo /\ Len(d.host) <= 255
      [] OTHER -> FALSE

\* C31: a well-formed destination at dial.  Every Destination the SOCKS5
\* server passes to the dial callback has a family tag in {IPv4, DOMAIN,
\* IPv6} and an address payload whose length agrees with the tag (4 bytes for
\* IPv4, 16 bytes for IPv6, 1..255 bytes for a domain), whatever bytes the
\* client sent.
C31_WellFormedAtDial ==
    mode = "server" => \A i \in 1..Len(dialed) : WellFormedFrom(dialed[i], 1)

\* what holds: the same with a domain of 0..255 bytes
C31_WellFormedOrEmptyDomain ==
    mode = "server" => \A i \in 1..Len(dialed) : WellFormedFrom(dialed[i], 0)

\* the dial callback was handed an IPv6 destination
C31_Ipv6Dialed ==
    /\ mode = "server" /\ Len(dialed) = 1
    /\ dialed[1].aty = DST_IPV6 /\ Len(dialed[1].host) = 16

----------------------------------------------------------------------------
(* The length octets the encoder writes *)

\* the encoder has returned Ok for the frame, its bytes are in buf
Encoded == mode = "encoder" /\ step = "encoded" /\ result = Ok

\* the length octets in buf tell the lengths of the frame's fields, and the
\* fields are written whole
LengthOctetsExact ==
    CASE item.tag = "Methods" ->
            /\ At(buf, 1) = Len(item.methods)
            /\ Rest(buf, 2) = item.methods
      [] item.tag = "UsernamePassword" ->
            /\ At(buf, 1) = Len(item.user)
            /\ Slice(buf, 2, Len(item.user)) = item.user
            /\ At(buf, 2 + Len(item.user)) = Len(item.pass)
            /\ Rest(buf, 3 + Len(item.user)) = item.pass
      [] item.tag \in {"Command", "Reply"} /\ item.atyp = DST_DOMAIN ->
            /\ At(buf, 4) = Len(item.addr)
            /\ Slice(buf, 5, Len(item.addr)) = item.addr
            /\ Len(buf) = 7 + Len(item.addr)
      [] OTHER -> TRUE

\* the frame's fields that have a length octet
FieldLengths ==
    CASE item.tag = "Methods" -> {Len(item.methods)}
      [] item.tag = "UsernamePassword" -> {Len(item.user), Len(item.pass)}
      [] item.tag \in {"Command", "Reply"} /\ item.atyp = DST_DOMAIN -> {Len(item.addr)}
      [] OTHER -> {}

\* C32: the length octets are exact.  For every frame the encoder accepts,
\* each length octet it writes (NMETHODS, username length, password length,
\* domain length) equals the number of bytes it writes for that field; a
\* field of more than 255 bytes is never written with a length octet reduced
\* modulo 256.
C32_LengthOctetsExact == Encoded => LengthOctetsExact

\* what holds: the octets are exact for the frames whose fields have at most
\* 255 bytes, and the encoder accepts the others as well
C32_ExactUpTo255 ==
    /\ Encoded => (LengthOctetsExact <=> \A n \in FieldLengths : n <= 255)
    /\ (mode = "encoder" /\ step = "encoded" /\ FieldLengths # {}) => result = Ok

\* a user name of 255 bytes was written with its length octet
C32_LongestWritten ==
    /\ Encoded
    /\ item.tag = "UsernamePassword" /\ Len(item.user) = 255
    /\ At(buf, 1) = 255 /\ LengthOctetsExact

====
